---------------------------- MODULE Spec2Model ----------------------------
(***************************************************************************)
(* A model of nats-io/jwt.js: the claims encoders (encodeOperator,         *)
(* encodeAccount, encodeUser, encodeActivation, encodeGeneric), the shared *)
(* encode step, decode, the key adapter checkKey, the base64 codecs and    *)
(* the classifier helpers of util.ts.                                      *)
(*                                                                         *)
(* JavaScript values are modelled as tagged records (Str, Num, Obj and the *)
(* value undefined); an object is the sequence of its <<key, value>>       *)
(* properties in insertion order, which is the order JSON.stringify        *)
(* writes them in.                                                         *)
(***************************************************************************)
EXTENDS Integers, Sequences, FiniteSets, TLC

VARIABLES
    heap,     \* the caller's payload objects: object id -> object
    now,      \* the clock, in seconds (Math.floor(Date.now() / 1000))
    pc,       \* the caller: "idle", "returned" (an encode call returned or threw), "decoded"
    call,     \* the arguments of the encode call that returned last
    err,      \* the error that call threw ("" when it returned a token)
    tok,      \* the token in hand: the sequence of its '.'-separated chunks
    signed,   \* the signatures the key pairs produced for the token in hand
    tampered, \* the chunks of tok that were changed since it was emitted
    dec,      \* the outcome of decode(tok)
    env,      \* the runtime: whether globalThis.crypto.subtle exists, and
              \* the bytes Math.random yields for the next random id
    held,     \* the tokens a caller keeps to compare: activations and claims
    eqv,      \* the outcome of equivalent on the two claims kept
    codec,    \* a value given to Base64UrlCodec, its encoding, and that decoded
    limits,   \* an argument of defaultUserPermissionsLimits and its result
    creds,    \* the credentials text fmtCreds wrote and what parseCreds read
    flight    \* the encode calls in flight: each call's frame

vars == <<heap, now, pc, call, err, tok, signed, tampered, dec, env, held, eqv,
          codec, limits, creds, flight>>

-----------------------------------------------------------------------------
(* Bounds of the model.                                                    *)

\* Bytes in a signature (64 for ed25519; scaled down, same remainder mod 3).
SigLen == 4
\* The clock runs from 0 to MaxTime.
MaxTime == 1

-----------------------------------------------------------------------------
(* JavaScript values and objects.                                          *)

Undefined == [undef |-> TRUE]
Str(s) == [str |-> s]
Num(n) == [num |-> n]
Bool(b) == [bool |-> b]
Obj(o) == [obj |-> o]
Arr(a) == [arr |-> a]

IsObj(v) == DOMAIN v = {"obj"}
IsArr(v) == DOMAIN v = {"arr"}

\* The conditions `if (v)`, `v ? a : b`, `!v`.
Truthy(v) ==
    /\ v # Undefined
    /\ v # Str("")
    /\ v # Num(0)
    /\ v # Bool(FALSE)

Has(o, k) == \E i \in DOMAIN o : o[i][1] = k

\* o[k]: undefined when o has no property k.
Get(o, k) ==
    IF Has(o, k) THEN o[CHOOSE i \in DOMAIN o : o[i][1] = k][2] ELSE Undefined

\* o[k] = v: an existing property keeps its place, a new one goes last.
Put(o, k, v) ==
    IF Has(o, k)
    THEN [i \in DOMAIN o |-> IF o[i][1] = k THEN <<k, v>> ELSE o[i]]
    ELSE Append(o, <<k, v>>)

RECURSIVE ObjectAssign(_, _)
ObjectAssign(a, b) ==
    IF b = <<>> THEN a
    ELSE ObjectAssign(Put(a, Head(b)[1], Head(b)[2]), Tail(b))

RECURSIVE extend(_, _)
extend(a, bs) ==
    IF bs = <<>> THEN a ELSE extend(ObjectAssign(a, Head(bs)), Tail(bs))

\* JSON.stringify(v, replacer) of a value, the replacer returning undefined
\* for the keys in drop: those properties and the ones whose value is
\* undefined are left out, in objects at every depth, arrays included.
RECURSIVE StringifyReplaced(_, _)
StringifyReplaced(v, drop) ==
    IF IsObj(v)
    THEN LET kept == SelectSeq(v.obj,
                         LAMBDA p : p[1] \notin drop /\ p[2] # Undefined)
         IN  Obj([i \in DOMAIN kept |->
                    <<kept[i][1], StringifyReplaced(kept[i][2], drop)>>])
    ELSE IF IsArr(v)
    THEN Arr([i \in DOMAIN v.arr |-> StringifyReplaced(v.arr[i], drop)])
    ELSE v

\* JSON.stringify: properties whose value is undefined are left out, at
\* every depth. The text is kept as the object it spells.
RECURSIVE StringifyObj(_)
StringifyObj(o) ==
    IF o = <<>> THEN <<>>
    ELSE LET k == Head(o)[1]
             v == Head(o)[2]
             rest == StringifyObj(Tail(o))
         IN  IF v = Undefined THEN rest
             ELSE IF IsObj(v) THEN <<<<k, Obj(StringifyObj(v.obj))>>>> \o rest
             ELSE IF IsArr(v) THEN <<<<k, StringifyReplaced(v, {})>>>> \o rest
             ELSE <<<<k, v>>>> \o rest

JSONstringify(o) == [json |-> StringifyObj(o)]
\* A text that is not JSON: JSON.parse throws on it.
NotJSON == [garbage |-> TRUE]
IsJSON(t) == DOMAIN t = {"json"}
JSONparse(t) == t.json


-----------------------------------------------------------------------------
(* Keys (keys.ts, nkeys.ts). A public key is a text whose first character  *)
(* is its type: O operator, A account, U user.                             *)

PubKeys == {"O1", "O2", "A1", "A2", "U1"}

\* k.charAt(0)
charAt0(k) ==
    CASE k \in {"O1", "O2"} -> "O"
      [] k \in {"A1", "A2"} -> "A"
      [] k \in {"U1"} -> "U"
      [] OTHER -> "?"

\* The errors of the key pair library.
PublicKeyOnly == "nkeys: no seed or private key available"
CannotSign == "nkeys: cannot sign, no private key available"
InvalidPublicKey == "nkeys: invalid public key"
BadSignatureSize == "bad signature size"

\* A value of type Key = string | Uint8Array | KeyPair: its form, the public
\* key it stands for, and whether it is (or was made from) a seed "S...".
KeyRef(form, pub, seed) == [form |-> form, pub |-> pub, seed |-> seed]
NoKey == KeyRef("undefined", "", FALSE)

\* A KeyPair: kp.getPublicKey() and whether kp.getPrivateKey() returns.
KeyPair(pub, priv) == [pub |-> pub, priv |-> priv]

\* parseKey that reads text alone: bytes are taken for a public key.
parseKey_TextOnly(v) ==
    IF v.form = "Uint8Array"
    THEN [err |-> InvalidPublicKey, kp |-> KeyPair(v.pub, FALSE)]
    ELSE IF v.seed THEN [err |-> "", kp |-> KeyPair(v.pub, TRUE)]
    ELSE IF v.pub \in PubKeys THEN [err |-> "", kp |-> KeyPair(v.pub, FALSE)]
    ELSE [err |-> InvalidPublicKey, kp |-> KeyPair(v.pub, FALSE)]

\* parseKey: bytes are read as text; "S..." is a seed, anything else must be
\* a public key.
parseKey(v) ==
    IF v.seed THEN [err |-> "", kp |-> KeyPair(v.pub, TRUE)]
    ELSE IF v.pub \in PubKeys THEN [err |-> "", kp |-> KeyPair(v.pub, FALSE)]
    ELSE [err |-> InvalidPublicKey, kp |-> KeyPair(v.pub, FALSE)]

RECURSIVE Join(_)
Join(types) ==
    IF Len(types) = 0 THEN ""
    ELSE IF Len(types) = 1 THEN types[1]
    ELSE types[1] \o "," \o Join(Tail(types))

Range(f) == {f[i] : i \in DOMAIN f}

UnexpectedType(actual, types) ==
    "unexpected type " \o actual \o " - wanted " \o Join(types)

\* checkKey that checks the seed before the type.
checkKey_SeedFirst(v, type, seed) ==
    LET parsed == IF v.form \in {"string", "Uint8Array"}
                  THEN parseKey(v)
                  ELSE [err |-> "", kp |-> KeyPair(v.pub, v.seed)]
        kp == parsed.kp
        k == kp.pub
    IN  IF parsed.err # "" THEN parsed
        ELSE IF seed /\ ~kp.priv
        THEN [err |-> PublicKeyOnly, kp |-> kp]
        ELSE IF Len(type) > 0 /\ charAt0(k) \notin Range(type)
        THEN [err |-> UnexpectedType(charAt0(k), type), kp |-> kp]
        ELSE [err |-> "", kp |-> kp]

\* checkKey that never looks at the type.
checkKey_NoTypeCheck(v, type, seed) ==
    LET parsed == IF v.form \in {"string", "Uint8Array"}
                  THEN parseKey(v)
                  ELSE [err |-> "", kp |-> KeyPair(v.pub, v.seed)]
        kp == parsed.kp
    IN  IF parsed.err # "" THEN parsed
        ELSE IF seed /\ ~kp.priv
        THEN [err |-> PublicKeyOnly, kp |-> kp]
        ELSE [err |-> "", kp |-> kp]

\* checkKey(v, type, seed); type is "" (<<>>), one type or a list of types.
checkKey(v, type, seed) ==
    LET parsed == IF v.form \in {"string", "Uint8Array"}
                  THEN parseKey(v)
                  ELSE [err |-> "", kp |-> KeyPair(v.pub, v.seed)]
        kp == parsed.kp
        k == kp.pub
    IN  IF parsed.err # "" THEN parsed
        ELSE IF Len(type) > 0 /\ charAt0(k) \notin Range(type)
        THEN [err |-> UnexpectedType(charAt0(k), type), kp |-> kp]
        ELSE IF seed /\ ~kp.priv
        THEN [err |-> PublicKeyOnly, kp |-> kp]
        ELSE [err |-> "", kp |-> kp]

-----------------------------------------------------------------------------
(* base64.ts. A text of base64 characters is a sequence of one-character   *)
(* strings; bytes are numbers 0..255.                                      *)

B64Alphabet ==
    << "A", "B", "C", "D", "E", "F", "G", "H", "I", "J", "K", "L", "M",
       "N", "O", "P", "Q", "R", "S", "T", "U", "V", "W", "X", "Y", "Z",
       "a", "b", "c", "d", "e", "f", "g", "h", "i", "j", "k", "l", "m",
       "n", "o", "p", "q", "r", "s", "t", "u", "v", "w", "x", "y", "z",
       "0", "1", "2", "3", "4", "5", "6", "7", "8", "9", "+", "/" >>

B64Chars == Range(B64Alphabet)
Whitespace == {" "}

\* The character of a 6-bit value, and back.
B64Char(n) == B64Alphabet[n + 1]
B64Value(c) == (CHOOSE i \in DOMAIN B64Alphabet : B64Alphabet[i] = c) - 1

\* btoa over the bytes' characters: 3 bytes to 4 characters, '=' padded.
RECURSIVE btoa(_)
btoa(bytes) ==
    IF Len(bytes) = 0 THEN <<>>
    ELSE IF Len(bytes) = 1
    THEN << B64Char(bytes[1] \div 4), B64Char((bytes[1] % 4) * 16), "=", "=" >>
    ELSE IF Len(bytes) = 2
    THEN << B64Char(bytes[1] \div 4),
            B64Char((bytes[1] % 4) * 16 + bytes[2] \div 16),
            B64Char((bytes[2] % 16) * 4), "=" >>
    ELSE << B64Char(bytes[1] \div 4),
            B64Char((bytes[1] % 4) * 16 + bytes[2] \div 16),
            B64Char((bytes[2] % 16) * 4 + bytes[3] \div 64),
            B64Char(bytes[3] % 64) >>
         \o btoa(SubSeq(bytes, 4, Len(bytes)))

\* The bytes of a text of alphabet characters whose length is not 1 mod 4:
\* a last group of 2 (3) characters gives 1 (2) bytes, its unused low bits
\* are dropped whatever they are.
RECURSIVE atobGroups(_)
atobGroups(s) ==
    IF Len(s) = 0 THEN <<>>
    ELSE LET v(i) == B64Value(s[i])
         IN  IF Len(s) = 2
             THEN << v(1) * 4 + v(2) \div 16 >>
             ELSE IF Len(s) = 3
             THEN << v(1) * 4 + v(2) \div 16, (v(2) % 16) * 16 + v(3) \div 4 >>
             ELSE << v(1) * 4 + v(2) \div 16,
                     (v(2) % 16) * 16 + v(3) \div 4,
                     (v(3) % 4) * 64 + v(4) >>
                  \o atobGroups(SubSeq(s, 5, Len(s)))

\* atob (the platform's forgiving base64 decode): whitespace is removed,
\* one or two '=' are removed from the end of a text whose length is a
\* multiple of 4, a length of 1 mod 4 or any other character fails.
atob(s) ==
    LET NotSpace(c) == c \notin Whitespace
        t == SelectSeq(s, NotSpace)
        n == Len(t)
        u == IF n % 4 = 0 /\ n >= 2 /\ t[n] = "=" /\ t[n - 1] = "="
             THEN SubSeq(t, 1, n - 2)
             ELSE IF n % 4 = 0 /\ n >= 1 /\ t[n] = "="
             THEN SubSeq(t, 1, n - 1)
             ELSE t
    IN  IF Len(u) % 4 = 1 \/ \E i \in DOMAIN u : u[i] \notin B64Chars
        THEN [ok |-> FALSE, bytes |-> <<>>]
        ELSE [ok |-> TRUE, bytes |-> atobGroups(u)]

\* Base64Codec.encode / decode of bytes.
Base64Codec_encode(bytes) == btoa(bytes)
Base64Codec_decode(s) == atob(s)

\* b64str.replace(/=/g, "").replace(/\+/g, "-").replace(/\//g, "_")
toB64URLEncoding(b64str) ==
    LET NotPad(c) == c # "="
        t == SelectSeq(b64str, NotPad)
    IN  [i \in DOMAIN t |-> IF t[i] = "+" THEN "-"
                            ELSE IF t[i] = "/" THEN "_" ELSE t[i]]

\* b64str.replace(/_/g, "/").replace(/-/g, "+")
fromB64URLEncoding(b64str) ==
    [i \in DOMAIN b64str |-> IF b64str[i] = "_" THEN "/"
                             ELSE IF b64str[i] = "-" THEN "+" ELSE b64str[i]]

Base64UrlCodec_encode(bytes) == toB64URLEncoding(Base64Codec_encode(bytes))
Base64UrlCodec_decode(s) == Base64Codec_decode(fromB64URLEncoding(s))

\* A string is the sequence of its UTF-16 code units. btoa(s) of a string
\* throws when a character of s is outside Latin-1.
btoaString(s) ==
    IF \E i \in DOMAIN s : s[i] > 255
    THEN [ok |-> FALSE, text |-> <<>>]
    ELSE [ok |-> TRUE, text |-> btoa(s)]

\* Base64Codec.encode and Base64UrlCodec.encode of a string.
Base64Codec_encodeString(s) == btoaString(s)

Base64UrlCodec_encodeString(s) ==
    LET e == Base64Codec_encodeString(s)
    IN  [ok |-> e.ok, text |-> toB64URLEncoding(e.text)]

-----------------------------------------------------------------------------
(* The header and payload chunks. Base64UrlCodec.encode of a JSON text is  *)
(* kept as the text it spells and the way it is spelt: "canonical" is what *)
(* the codec writes, "other" is another spelling atob reads as the same    *)
(* text ('+' for '-', other unused low bits), "invalid" is not base64.     *)

Base64UrlCodec_encodeText(text) == [b64url |-> text, spelling |-> "canonical"]

Base64UrlCodec_decodeText(chunk) ==
    [ok |-> chunk.spelling # "invalid", text |-> chunk.b64url]

-----------------------------------------------------------------------------
(* KeyPair.sign and KeyPair.verify (nkeys.ts). The key pair library is an  *)
(* ideal signature scheme: a signature verifies under a public key for a   *)
(* message exactly when that key pair produced it for that message.        *)

KeyNumber(pk) ==
    CASE pk = "O1" -> 1 [] pk = "O2" -> 2 [] pk = "A1" -> 3
      [] pk = "A2" -> 4 [] pk = "U1" -> 5 [] OTHER -> 0

\* The signature bytes a key pair writes.
SignatureBytes(pk) ==
    [i \in 1..SigLen |-> (251 * KeyNumber(pk) + 62 * i) % 256]

sign(kp, input) ==
    IF ~kp.priv
    THEN [err |-> CannotSign, sig |-> <<>>, signed |-> {}]
    ELSE [err |-> "",
          sig |-> SignatureBytes(kp.pub),
          signed |-> {[pk |-> kp.pub, input |-> input,
                       sig |-> SignatureBytes(kp.pub)]}]

verify(pk, input, sig, produced) ==
    IF Len(sig) # SigLen
    THEN [err |-> BadSignatureSize, ok |-> FALSE]
    ELSE [err |-> "",
          ok |-> \E r \in produced :
                    r.pk = pk /\ r.input = input /\ r.sig = sig]

-----------------------------------------------------------------------------
(* jwt.ts: the encoders.                                                   *)

Algorithms_v1 == "ed25519"
Algorithms_v2 == "ed25519-nkey"

Types_Operator == "operator"
Types_Account == "account"
Types_User == "user"
Types_Activation == "activation"

\* Partial<UserEncodingOptions>: algorithm "" and signer NoKey are absent.
\* aud is a property callers put on the options object; the interfaces do
\* not declare it.
EncodingOptions(algorithm, signer, exp, nbf, scopedUser, aud) ==
    [algorithm |-> algorithm, signer |-> signer, exp |-> exp, nbf |-> nbf,
     scopedUser |-> scopedUser, aud |-> aud]

HasSigner(opts) == opts.signer # NoKey

initClaim(opts) ==
    extend(<<>>, << << <<"exp", opts.exp>>, <<"nbf", opts.nbf>> >> >>)

initAlgorithm(opts) ==
    IF opts.algorithm = "" THEN [opts EXCEPT !.algorithm = Algorithms_v2]
    ELSE opts

\* claim.nats[k] = v: claim.nats is the payload object itself.
PutNats(claim, k, v) ==
    Put(claim, "nats", Obj(Put(Get(claim, "nats").obj, k, v)))

Nats(claim) == Get(claim, "nats").obj

\* setVersionType that puts the type inside nats under either algorithm.
setVersionType_AlwaysNats(version, type, claim) ==
    LET c == Put(claim, "aud", Str("NATS"))
    IN  PutNats(c, "type", Str(type))

setVersionType(version, type, claim) ==
    LET c == Put(claim, "aud", Str("NATS"))
    IN  IF version = Algorithms_v2 THEN PutNats(c, "type", Str(type))
        ELSE Put(c, "type", Str(type))

\* crypto.subtle.digest("SHA-512", data), base64 encoded: a value that
\* stands for the hash of exactly this text.
Digest(data) == [sha512 |-> data]

\* new Uint8Array(12)
IdLen == 12

\* randomValues(buf): buf filled with Math.floor(Math.random() * 255).
randomValues == env.random

\* randomID(): btoa of the random bytes.
randomID == [b64 |-> btoa(randomValues)]

\* An encoder's outcome: the error thrown ("" for none), the token's chunks,
\* what the caller's payload object holds afterwards, the signature made.
Outcome(error, chunks, payload, produced) ==
    [err |-> error, chunks |-> chunks, payload |-> payload,
     signed |-> produced]

\* encode that hashes the claim before iat and version are set.
encode_HashBeforeIat(version, claim, kp, t) ==
    LET c1 == Put(claim, "iss", Str(kp.pub))
        c2 == Put(c1, "iat", Num(t))
        c3 == IF version = Algorithms_v2 THEN PutNats(c2, "version", Num(2))
              ELSE c2
        data == JSONstringify(c1)
        c4 == Put(c3, "jti", IF env.subtle THEN Digest(data) ELSE randomID)
        header == << <<"typ", Str("JWT")>>, <<"alg", Str(version)>> >>
        hstr == Base64UrlCodec_encodeText(JSONstringify(header))
        bstr == Base64UrlCodec_encodeText(JSONstringify(c4))
        payload == IF version = Algorithms_v2 THEN <<hstr, bstr>> ELSE <<bstr>>
        s == sign(kp, payload)
    IN  IF s.err # "" THEN Outcome(s.err, <<>>, Nats(c4), {})
        ELSE Outcome("", <<hstr, bstr, Base64UrlCodec_encode(s.sig)>>,
                     Nats(c4), s.signed)

\* encode(version, claim, kp) at time t.
encode(version, claim, kp, t) ==
    LET c1 == Put(claim, "iss", Str(kp.pub))
        c2 == Put(c1, "iat", Num(t))
        c3 == IF version = Algorithms_v2 THEN PutNats(c2, "version", Num(2))
              ELSE c2
        data == JSONstringify(c3)
        c4 == Put(c3, "jti", IF env.subtle THEN Digest(data) ELSE randomID)
        header == << <<"typ", Str("JWT")>>, <<"alg", Str(version)>> >>
        hstr == Base64UrlCodec_encodeText(JSONstringify(header))
        bstr == Base64UrlCodec_encodeText(JSONstringify(c4))
        payload == IF version = Algorithms_v2 THEN <<hstr, bstr>> ELSE <<bstr>>
        s == sign(kp, payload)
    IN  IF s.err # "" THEN Outcome(s.err, <<>>, Nats(c4), {})
        ELSE Outcome("", <<hstr, bstr, Base64UrlCodec_encode(s.sig)>>,
                     Nats(c4), s.signed)

\* encode up to "await digest": iss, iat and version are set and the claim
\* is serialized for the hash.
encodeToAwait(version, claim, kp, t) ==
    LET c1 == Put(claim, "iss", Str(kp.pub))
        c2 == Put(c1, "iat", Num(t))
        c3 == IF version = Algorithms_v2 THEN PutNats(c2, "version", Num(2))
              ELSE c2
    IN  [claim |-> c3, data |-> JSONstringify(c3)]

\* encode from the point where the digest of data has arrived: claim is the
\* claim object as it is by then.
encodeFromAwait(version, claim, data, kp) ==
    LET c4 == Put(claim, "jti", IF env.subtle THEN Digest(data) ELSE randomID)
        header == << <<"typ", Str("JWT")>>, <<"alg", Str(version)>> >>
        hstr == Base64UrlCodec_encodeText(JSONstringify(header))
        bstr == Base64UrlCodec_encodeText(JSONstringify(c4))
        payload == IF version = Algorithms_v2 THEN <<hstr, bstr>> ELSE <<bstr>>
        s == sign(kp, payload)
    IN  IF s.err # "" THEN Outcome(s.err, <<>>, Nats(c4), {})
        ELSE Outcome("", <<hstr, bstr, Base64UrlCodec_encode(s.sig)>>,
                     Nats(c4), s.signed)

encodeOperator(name, okp, operator, opts, t) ==
    LET k == checkKey(okp, <<"O">>, ~HasSigner(opts))
        s == IF HasSigner(opts) THEN checkKey(opts.signer, <<"O">>, TRUE) ELSE k
        c1 == Put(initClaim(opts), "name", Str(name))
        c2 == Put(c1, "sub", Str(k.kp.pub))
        c3 == Put(c2, "nats", Obj(operator))
        o == initAlgorithm(opts)
        c4 == setVersionType(o.algorithm, Types_Operator, c3)
    IN  IF k.err # "" THEN Outcome(k.err, <<>>, operator, {})
        ELSE IF s.err # "" THEN Outcome(s.err, <<>>, operator, {})
        ELSE encode(o.algorithm, c4, s.kp, t)

\* encodeAccount that, as encodeUser does, records the subject in
\* issuer_account under a signer.
encodeAccount_IssuerAccount(name, akp, account, opts, t) ==
    LET k == checkKey(akp, <<"A">>, ~HasSigner(opts))
        s == IF HasSigner(opts)
             THEN checkKey(opts.signer, <<"O", "A">>, TRUE) ELSE k
        c1 == Put(initClaim(opts), "name", Str(name))
        c2 == Put(c1, "sub", Str(k.kp.pub))
        c3 == Put(c2, "nats", Obj(account))
        c3a == IF HasSigner(opts)
               THEN PutNats(c3, "issuer_account", Str(k.kp.pub)) ELSE c3
        o == initAlgorithm(opts)
        c4 == setVersionType(o.algorithm, Types_Account, c3a)
    IN  IF k.err # "" THEN Outcome(k.err, <<>>, account, {})
        ELSE IF s.err # "" THEN Outcome(s.err, <<>>, account, {})
        ELSE encode(o.algorithm, c4, s.kp, t)

encodeAccount(name, akp, account, opts, t) ==
    LET k == checkKey(akp, <<"A">>, ~HasSigner(opts))
        s == IF HasSigner(opts)
             THEN checkKey(opts.signer, <<"O", "A">>, TRUE) ELSE k
        c1 == Put(initClaim(opts), "name", Str(name))
        c2 == Put(c1, "sub", Str(k.kp.pub))
        c3 == Put(c2, "nats", Obj(account))
        o == initAlgorithm(opts)
        c4 == setVersionType(o.algorithm, Types_Account, c3)
    IN  IF k.err # "" THEN Outcome(k.err, <<>>, account, {})
        ELSE IF s.err # "" THEN Outcome(s.err, <<>>, account, {})
        ELSE encode(o.algorithm, c4, s.kp, t)

\* defaultUser with the defaults laid over what the caller gave.
defaultUser_DefaultsWin(d) ==
    extend(d, << << <<"data", Num(-1)>>, <<"payload", Num(-1)>>,
                    <<"subs", Num(-1)>> >> >>)

defaultUser(d) ==
    extend(<< <<"data", Num(-1)>>, <<"payload", Num(-1)>>, <<"subs", Num(-1)>> >>,
           << d >>)

\* claim.nats of a user with the defaults whatever scopedUser is.
userNats_AlwaysDefault(user, opts) == defaultUser(user)

\* claim.nats = opts.scopedUser ? user : defaultUser(user)
userNats(user, opts) == IF opts.scopedUser THEN user ELSE defaultUser(user)

\* The user key taken with any type.
checkUserKey_AnyType(ukp) == checkKey(ukp, <<>>, FALSE)

\* ukp = checkKey(ukp, "U")
checkUserKey(ukp) == checkKey(ukp, <<"U">>, FALSE)

encodeUser(name, ukp, issuer, user, opts, t) ==
    LET i == checkKey(issuer, <<"A">>, ~HasSigner(opts))
        s == IF HasSigner(opts) THEN checkKey(opts.signer, <<"A">>, TRUE) ELSE i
        u == checkUserKey(ukp)
        c1 == Put(initClaim(opts), "name", Str(name))
        c2 == Put(c1, "sub", Str(u.kp.pub))
        c3 == Put(c2, "nats", Obj(userNats(user, opts)))
        c4 == IF HasSigner(opts)
              THEN PutNats(c3, "issuer_account", Str(i.kp.pub)) ELSE c3
        c5 == Put(c4, "aud", Str("NATS"))
        o == initAlgorithm(opts)
        c6 == setVersionType(o.algorithm, Types_User, c5)
        r == encode(o.algorithm, c6, s.kp, t)
    IN  IF i.err # "" THEN Outcome(i.err, <<>>, user, {})
        ELSE IF s.err # "" THEN Outcome(s.err, <<>>, user, {})
        ELSE IF u.err # "" THEN Outcome(u.err, <<>>, user, {})
        ELSE IF opts.scopedUser THEN r
        ELSE [r EXCEPT !.payload = user]

encodeActivation(name, subject, issuer, kind, data, opts, t) ==
    LET sub == checkKey(subject, <<>>, FALSE)
        i == checkKey(issuer, <<>>, ~HasSigner(opts))
        s == IF HasSigner(opts) THEN checkKey(opts.signer, <<>>, TRUE) ELSE i
        c1 == Put(initClaim(opts), "name", Str(name))
        c2 == Put(c1, "sub", Str(sub.kp.pub))
        c3 == Put(c2, "nats", Obj(data))
        c4 == IF HasSigner(opts)
              THEN PutNats(c3, "issuer_account", Str(i.kp.pub)) ELSE c3
        o == initAlgorithm(opts)
        key == IF o.algorithm = Algorithms_v2 THEN "kind" ELSE "type"
        c5 == PutNats(c4, key, Str(kind))
        c6 == setVersionType(o.algorithm, Types_Activation, c5)
    IN  IF sub.err # "" THEN Outcome(sub.err, <<>>, data, {})
        ELSE IF i.err # "" THEN Outcome(i.err, <<>>, data, {})
        ELSE IF s.err # "" THEN Outcome(s.err, <<>>, data, {})
        ELSE encode(o.algorithm, c6, s.kp, t)

\* encodeActivation up to its call of encode: the error thrown, or the claim,
\* the algorithm and the signing key pair handed to encode.
activationClaim(name, subject, issuer, kind, data, opts) ==
    LET sub == checkKey(subject, <<>>, FALSE)
        i == checkKey(issuer, <<>>, ~HasSigner(opts))
        s == IF HasSigner(opts) THEN checkKey(opts.signer, <<>>, TRUE) ELSE i
        c1 == Put(initClaim(opts), "name", Str(name))
        c2 == Put(c1, "sub", Str(sub.kp.pub))
        c3 == Put(c2, "nats", Obj(data))
        c4 == IF HasSigner(opts)
              THEN PutNats(c3, "issuer_account", Str(i.kp.pub)) ELSE c3
        o == initAlgorithm(opts)
        key == IF o.algorithm = Algorithms_v2 THEN "kind" ELSE "type"
        c5 == PutNats(c4, key, Str(kind))
        c6 == setVersionType(o.algorithm, Types_Activation, c5)
        e == IF sub.err # "" THEN sub.err ELSE IF i.err # "" THEN i.err
             ELSE s.err
    IN  [err |-> e, algorithm |-> o.algorithm,
         claim |-> IF e = "" THEN c6 ELSE <<>>, kp |-> s.kp]

encodeGeneric(name, akp, kind, data, opts, t) ==
    LET k == checkKey(akp, <<>>, FALSE)
        c1 == Put(initClaim(opts), "name", Str(name))
        c2 == Put(c1, "nats", Obj(data))
        c3 == Put(c2, "sub", Str(k.kp.pub))
        o == initAlgorithm(opts)
        c4 == setVersionType(o.algorithm, kind, c3)
    IN  IF k.err # "" THEN Outcome(k.err, <<>>, data, {})
        ELSE encode(o.algorithm, c4, k.kp, t)

-----------------------------------------------------------------------------
(* jwt.ts: decode.                                                         *)

SigVerificationFailed == "sig verification failed"
InvalidJwt == "invalid jwt"
NotANatsJwt == "not a nats jwt"
InvalidCharacter == "atob: the string is not correctly encoded"
SyntaxError == "JSON.parse: unexpected token"
TypeError == "TypeError: cannot read properties of undefined"

Decoded(error, claim) == [err |-> error, claim |-> claim]

\* The issuer's key taken as an account key only.
checkIssuerKey_AccountOnly(iss) ==
    checkKey(KeyRef("string", iss, FALSE), <<"A">>, FALSE)

\* const ipk = checkKey(b.iss)
checkIssuerKey(iss) == checkKey(KeyRef("string", iss, FALSE), <<>>, FALSE)

\* The signing input of v1 for every algorithm.
signingInput_PayloadOnly(alg, chunks) == <<chunks[2]>>

\* h.alg === Algorithms.v2 ? `${chunks[0]}.${chunks[1]}` : chunks[1]
signingInput(alg, chunks) ==
    IF alg = Str(Algorithms_v2) THEN <<chunks[1], chunks[2]>> ELSE <<chunks[2]>>

\* decode that parses the header before it counts the chunks.
decode_HeaderBeforeCount(chunks, produced) ==
    LET ht == Base64UrlCodec_decodeText(chunks[1])
        h == JSONparse(ht.text)
        bt == Base64UrlCodec_decodeText(chunks[2])
        b == JSONparse(bt.text)
        iss == Get(b, "iss")
        ipk == checkIssuerKey(iss.str)
        sig == Base64UrlCodec_decode(chunks[3])
        payload == signingInput(Get(h, "alg"), chunks)
        v == verify(ipk.kp.pub, payload, sig.bytes, produced)
    IN  IF ~ht.ok THEN Decoded(InvalidCharacter, <<>>)
        ELSE IF ~IsJSON(ht.text) THEN Decoded(SyntaxError, <<>>)
        ELSE IF Len(chunks) # 3 THEN Decoded(InvalidJwt, <<>>)
        ELSE IF Get(h, "typ") # Str("jwt") /\ Get(h, "typ") # Str("JWT")
        THEN Decoded(NotANatsJwt, <<>>)
        ELSE IF Get(h, "alg") # Str(Algorithms_v1)
                /\ Get(h, "alg") # Str(Algorithms_v2)
        THEN Decoded(NotANatsJwt, <<>>)
        ELSE IF ~bt.ok THEN Decoded(InvalidCharacter, <<>>)
        ELSE IF ~IsJSON(bt.text) THEN Decoded(SyntaxError, <<>>)
        ELSE IF DOMAIN iss # {"str"} THEN Decoded(TypeError, <<>>)
        ELSE IF ipk.err # "" THEN Decoded(ipk.err, <<>>)
        ELSE IF ~sig.ok THEN Decoded(InvalidCharacter, <<>>)
        ELSE IF v.err # "" THEN Decoded(v.err, <<>>)
        ELSE IF ~v.ok THEN Decoded(SigVerificationFailed, <<>>)
        ELSE Decoded("", b)

\* decode that reads the payload and its issuer key before it checks the
\* header.
decode_IssuerBeforeHeader(chunks, produced) ==
    IF Len(chunks) # 3 THEN Decoded(InvalidJwt, <<>>)
    ELSE
    LET ht == Base64UrlCodec_decodeText(chunks[1])
        h == JSONparse(ht.text)
        bt == Base64UrlCodec_decodeText(chunks[2])
        b == JSONparse(bt.text)
        iss == Get(b, "iss")
        ipk == checkIssuerKey(iss.str)
        sig == Base64UrlCodec_decode(chunks[3])
        payload == signingInput(Get(h, "alg"), chunks)
        v == verify(ipk.kp.pub, payload, sig.bytes, produced)
    IN  IF ~ht.ok THEN Decoded(InvalidCharacter, <<>>)
        ELSE IF ~IsJSON(ht.text) THEN Decoded(SyntaxError, <<>>)
        ELSE IF ~bt.ok THEN Decoded(InvalidCharacter, <<>>)
        ELSE IF ~IsJSON(bt.text) THEN Decoded(SyntaxError, <<>>)
        ELSE IF DOMAIN iss # {"str"} THEN Decoded(TypeError, <<>>)
        ELSE IF ipk.err # "" THEN Decoded(ipk.err, <<>>)
        ELSE IF Get(h, "typ") # Str("jwt") /\ Get(h, "typ") # Str("JWT")
        THEN Decoded(NotANatsJwt, <<>>)
        ELSE IF Get(h, "alg") # Str(Algorithms_v1)
                /\ Get(h, "alg") # Str(Algorithms_v2)
        THEN Decoded(NotANatsJwt, <<>>)
        ELSE IF ~sig.ok THEN Decoded(InvalidCharacter, <<>>)
        ELSE IF v.err # "" THEN Decoded(v.err, <<>>)
        ELSE IF ~v.ok THEN Decoded(SigVerificationFailed, <<>>)
        ELSE Decoded("", b)

\* decode that rejects a claim outside its exp and nbf at the current time.
decode_ChecksDates(chunks, produced) ==
    IF Len(chunks) # 3 THEN Decoded(InvalidJwt, <<>>)
    ELSE
    LET ht == Base64UrlCodec_decodeText(chunks[1])
        h == JSONparse(ht.text)
        bt == Base64UrlCodec_decodeText(chunks[2])
        b == JSONparse(bt.text)
        iss == Get(b, "iss")
        ipk == checkIssuerKey(iss.str)
        sig == Base64UrlCodec_decode(chunks[3])
        payload == signingInput(Get(h, "alg"), chunks)
        v == verify(ipk.kp.pub, payload, sig.bytes, produced)
    IN  IF ~ht.ok THEN Decoded(InvalidCharacter, <<>>)
        ELSE IF ~IsJSON(ht.text) THEN Decoded(SyntaxError, <<>>)
        ELSE IF Get(h, "typ") # Str("jwt") /\ Get(h, "typ") # Str("JWT")
        THEN Decoded(NotANatsJwt, <<>>)
        ELSE IF Get(h, "alg") # Str(Algorithms_v1)
                /\ Get(h, "alg") # Str(Algorithms_v2)
        THEN Decoded(NotANatsJwt, <<>>)
        ELSE IF ~bt.ok THEN Decoded(InvalidCharacter, <<>>)
        ELSE IF ~IsJSON(bt.text) THEN Decoded(SyntaxError, <<>>)
        ELSE IF DOMAIN iss # {"str"} THEN Decoded(TypeError, <<>>)
        ELSE IF ipk.err # "" THEN Decoded(ipk.err, <<>>)
        ELSE IF ~sig.ok THEN Decoded(InvalidCharacter, <<>>)
        ELSE IF v.err # "" THEN Decoded(v.err, <<>>)
        ELSE IF ~v.ok THEN Decoded(SigVerificationFailed, <<>>)
        ELSE IF DOMAIN Get(b, "exp") = {"num"} /\ Get(b, "exp").num < now
        THEN Decoded("claim is expired", <<>>)
        ELSE IF DOMAIN Get(b, "nbf") = {"num"} /\ Get(b, "nbf").num > now
        THEN Decoded("claim is not yet valid", <<>>)
        ELSE Decoded("", b)

\* decode(jwt), jwt.split(".") being chunks; produced holds the signatures
\* that exist.
decode(chunks, produced) ==
    IF Len(chunks) # 3 THEN Decoded(InvalidJwt, <<>>)
    ELSE
    LET ht == Base64UrlCodec_decodeText(chunks[1])
        h == JSONparse(ht.text)
        bt == Base64UrlCodec_decodeText(chunks[2])
        b == JSONparse(bt.text)
        iss == Get(b, "iss")
        ipk == checkIssuerKey(iss.str)
        sig == Base64UrlCodec_decode(chunks[3])
        payload == signingInput(Get(h, "alg"), chunks)
        v == verify(ipk.kp.pub, payload, sig.bytes, produced)
    IN  IF ~ht.ok THEN Decoded(InvalidCharacter, <<>>)
        ELSE IF ~IsJSON(ht.text) THEN Decoded(SyntaxError, <<>>)
        ELSE IF Get(h, "typ") # Str("jwt") /\ Get(h, "typ") # Str("JWT")
        THEN Decoded(NotANatsJwt, <<>>)
        ELSE IF Get(h, "alg") # Str(Algorithms_v1)
                /\ Get(h, "alg") # Str(Algorithms_v2)
        THEN Decoded(NotANatsJwt, <<>>)
        ELSE IF ~bt.ok THEN Decoded(InvalidCharacter, <<>>)
        ELSE IF ~IsJSON(bt.text) THEN Decoded(SyntaxError, <<>>)
        ELSE IF DOMAIN iss # {"str"} THEN Decoded(TypeError, <<>>)
        ELSE IF ipk.err # "" THEN Decoded(ipk.err, <<>>)
        ELSE IF ~sig.ok THEN Decoded(InvalidCharacter, <<>>)
        ELSE IF v.err # "" THEN Decoded(v.err, <<>>)
        ELSE IF ~v.ok THEN Decoded(SigVerificationFailed, <<>>)
        ELSE Decoded("", b)

-----------------------------------------------------------------------------
(* util.ts: the classifier.                                                *)

version(c) ==
    IF Truthy(Get(Nats(c), "version")) THEN Get(Nats(c), "version") ELSE Num(1)

\* version(c) === 1 ? c.type : gen.type
typeOf(c) ==
    IF version(c) = Num(1) THEN Get(c, "type") ELSE Get(Nats(c), "type")

isOperator(c) == typeOf(c) = Str(Types_Operator)

isAccount(c) == typeOf(c) = Str(Types_Account)

isUser(c) == typeOf(c) = Str(Types_User)

isActivation(c) == typeOf(c) = Str(Types_Activation)

isGeneric(c) == ~isAccount(c) /\ ~isUser(c) /\ ~isActivation(c)

\* issuer that reads iss alone.
issuer_IssOnly(claim) == Get(claim, "iss")

issuer(claim) ==
    IF Truthy(Get(Nats(claim), "issuer_account"))
    THEN Get(Nats(claim), "issuer_account") ELSE Get(claim, "iss")

defaultNatsLimits ==
    << <<"data", Num(-1)>>, <<"payload", Num(-1)>>, <<"subs", Num(-1)>> >>

defaultResponsePermissions == << <<"max", Num(0)>>, <<"ttl", Num(0)>> >>

defaultPermission == << <<"allow", Arr(<<>>)>>, <<"deny", Arr(<<>>)>> >>

defaultPermissions ==
    LET perms == << <<"pub", Obj(defaultPermission)>>,
                    <<"sub", Obj(defaultPermission)>> >>
    IN  Put(perms, "resp", Obj(defaultResponsePermissions))

defaultUserLimits ==
    << <<"src", Arr(<<>>)>>, <<"times", Arr(<<>>)>>, <<"locale", Str("")>> >>

\* defaultUserPermissionsLimits(d): Object.assign of the defaults and then d
\* onto one object, property by property of the top level.
defaultUserPermissionsLimits(d) ==
    extend(defaultNatsLimits,
           << defaultUserLimits,
              defaultPermissions,
              << <<"bearer_token", Bool(FALSE)>>,
                 <<"allowed_connection_types", Arr(<<>>)>> >>,
              d >>)

\* newScopedSigner(signer, role, limits): the signing key, or the error.
newScopedSigner(signer, role, lim) ==
    LET k == checkKey(signer, <<"A">>, FALSE)
        s == << <<"key", Str(k.kp.pub)>>, <<"role", Str(role)>>,
                <<"kind", Str("user_scope")>>,
                <<"template", Obj(defaultUserPermissionsLimits(lim))>> >>
    IN  IF k.err # "" THEN [err |-> k.err, s |-> <<>>]
        ELSE [err |-> "", s |-> s]

BadCredentials == "bad credentials"

\* A credentials text, line by line: a line of dashes ("-----BEGIN ...-----"),
\* an empty line, or a line of text that may have blanks around it.  eol
\* says whether the last line ends in a newline.
DashLine == [kind |-> "dashes", text |-> Undefined, pad |-> FALSE]
EmptyLine == [kind |-> "empty", text |-> Undefined, pad |-> FALSE]
TextLine(v, pad) == [kind |-> "text", text |-> v, pad |-> pad]
CredsText(lines, eol) == [lines |-> lines, eol |-> eol]

\* new TextDecoder().decode(kp.getSeed()) of a key pair that has its seed.
SeedOf(kp) == [seed |-> kp.pub]

\* fmtCreds(token, kp): the token and the seed, each between two lines of
\* dashes, with a notice between the blocks.
fmtCreds(token, kp) ==
    CredsText(<< DashLine, TextLine(token, FALSE), DashLine,
                 EmptyLine,
                 TextLine(Str("IMPORTANT"), FALSE),
                 TextLine(Str("NKEY Seed printed below"), FALSE),
                 TextLine(Str("NKEYs are sensitive"), FALSE),
                 EmptyLine,
                 DashLine, TextLine(SeedOf(kp), FALSE), DashLine >>,
              TRUE)

\* The first line after line i that is not empty, or 0.
RECURSIVE skipEmpty(_, _)
skipEmpty(lines, i) ==
    IF i > Len(lines) THEN 0
    ELSE IF lines[i].kind # "empty" THEN i
    ELSE skipEmpty(lines, i + 1)

\* CREDS matched at line i: dashes and newline, (.+), newline, blank space,
\* dashes and newline.
matchAt(text, i) ==
    LET lines == text.lines
        j == skipEmpty(lines, i + 2)
    IN  /\ i + 1 <= Len(lines)
        /\ lines[i].kind = "dashes"
        /\ lines[i + 1].kind # "empty"
        /\ j # 0
        /\ lines[j].kind = "dashes"
        /\ (j < Len(lines) \/ text.eol)

\* The first match of CREDS at or after line i.
RECURSIVE search(_, _)
search(text, i) ==
    IF i > Len(text.lines)
    THEN [found |-> FALSE, m1 |-> EmptyLine, lastIndex |-> 1]
    ELSE IF matchAt(text, i)
    THEN [found |-> TRUE, m1 |-> text.lines[i + 1],
          lastIndex |-> skipEmpty(text.lines, i + 2) + 1]
    ELSE search(text, i + 1)

\* CREDS.exec without the g flag: every search starts at the first line.
exec_FromStart(text, lastIndex) == search(text, 1)

\* CREDS.exec(s) with the g flag: the first match at or after lastIndex, the
\* line (.+) captured, and the new lastIndex.
exec(text, lastIndex) == search(text, lastIndex)

\* m[1].trim(): the line's text without the blanks around it.
trim(line) == IF line.kind = "text" THEN line.text ELSE Str("-----")

\* jwt.split("."): the chunks of a token, the whole text otherwise.
split(v) == IF DOMAIN v = {"jwt"} THEN v.jwt ELSE <<v>>

Parsed(error, key, jwt, uc, aid) ==
    [err |-> error, key |-> key, jwt |-> jwt, uc |-> uc, aid |-> aid]

\* parseCreds(creds), given the signatures produced so far.
parseCreds(text, produced) ==
    LET m == exec(text, 1)
        jwt == trim(m.m1)
        d == decode(split(jwt), produced)
        uc == d.claim
        nats == Get(uc, "nats")
        aid == IF Truthy(Get(nats.obj, "issuer_account"))
               THEN Get(nats.obj, "issuer_account") ELSE Get(uc, "iss")
        m2 == exec(text, m.lastIndex)
        key == trim(m2.m1)
        none == Undefined
    IN  IF ~m.found THEN Parsed(BadCredentials, none, none, <<>>, none)
        ELSE IF d.err # "" THEN Parsed(d.err, none, none, <<>>, none)
        ELSE IF ~IsObj(nats) THEN Parsed(TypeError, none, none, <<>>, none)
        ELSE IF ~m2.found THEN Parsed(BadCredentials, none, none, <<>>, none)
        ELSE Parsed("", key, jwt, uc, aid)

\* equivalent's replacer: iat and jti are left out.
replacer == {"iat", "jti"}

\* A token as a string value of a payload.
Jwt(chunks) == [jwt |-> chunks]

\* expandTokens(c): the imports of c.nats (made [] when absent), each token
\* replaced by the text of its decoded claim without iat and jti; decode
\* may throw.
expandTokens(c, produced) ==
    LET given == Get(Nats(c), "imports")
        imports == IF given = Undefined THEN <<>> ELSE given.arr
        td(im) == decode(Get(im.obj, "token").jwt, produced)
        expanded(im) ==
            IF Truthy(Get(im.obj, "token"))
            THEN Obj(Put(im.obj, "token",
                         [text |-> StringifyReplaced(Obj(td(im).claim),
                                                     replacer)]))
            ELSE im
        failed == {i \in DOMAIN imports :
                     /\ Truthy(Get(imports[i].obj, "token"))
                     /\ td(imports[i]).err # ""}
    IN  IF failed # {}
        THEN [err |-> td(imports[CHOOSE i \in failed :
                                    \A j \in failed : i <= j]).err,
              claim |-> c]
        ELSE [err |-> "",
              claim |-> PutNats(c, "imports",
                          Arr([i \in DOMAIN imports |-> expanded(imports[i])]))]

\* equivalent that compares account claims without expanding their tokens.
equivalent_NoExpand(a, b, produced) ==
    LET ca == decode(a, produced)
        cb == decode(b, produced)
    IN  IF ca.err # "" THEN [err |-> ca.err, result |-> FALSE]
        ELSE IF cb.err # "" THEN [err |-> cb.err, result |-> FALSE]
        ELSE [err |-> "",
              result |-> StringifyReplaced(Obj(ca.claim), replacer)
                           = StringifyReplaced(Obj(cb.claim), replacer)]

\* equivalent(a, b): a and b are tokens (their chunks).
equivalent(a, b, produced) ==
    LET ca == decode(a, produced)
        ea == IF isAccount(ca.claim) THEN expandTokens(ca.claim, produced)
              ELSE [err |-> "", claim |-> ca.claim]
        cb == decode(b, produced)
        eb == IF isAccount(cb.claim) THEN expandTokens(cb.claim, produced)
              ELSE [err |-> "", claim |-> cb.claim]
    IN  IF ca.err # "" THEN [err |-> ca.err, result |-> FALSE]
        ELSE IF ea.err # "" THEN [err |-> ea.err, result |-> FALSE]
        ELSE IF cb.err # "" THEN [err |-> cb.err, result |-> FALSE]
        ELSE IF eb.err # "" THEN [err |-> eb.err, result |-> FALSE]
        ELSE [err |-> "",
              result |-> StringifyReplaced(Obj(ea.claim), replacer)
                           = StringifyReplaced(Obj(eb.claim), replacer)]

-----------------------------------------------------------------------------
(* The callers: what the encoders are called with.                         *)

Seed(pk) == KeyRef("KeyPair", pk, TRUE)       \* createOperator(), createAccount(), ...
Public(pk) == KeyRef("string", pk, FALSE)     \* kp.getPublicKey()
SeedBytes(pk) == KeyRef("Uint8Array", pk, TRUE)   \* kp.getSeed()
SeedText(pk) == KeyRef("string", pk, TRUE)    \* new TextDecoder().decode(kp.getSeed())

Subjects == {Seed("O1"), Seed("A1"), Seed("U1"),
             Public("O1"), Public("A1"), Public("U1")}
Issuers == {Seed("A1"), Public("A1"), Seed("O1"), Seed("U1")}
Signers == {NoKey, Seed("O2"), Seed("A2"), Seed("U1"),
            Public("O2"), Public("A1")}

Algorithms == {"", Algorithms_v1, Algorithms_v2}
\* exp and nbf of the options: both absent, or both given; the last pair is
\* of a claim that expired at 0 and is not valid before 2.
ValidDates == {<<Undefined, Undefined>>, <<Num(9), Num(1)>>, <<Num(0), Num(2)>>}
Names == {"N"}
ActivationKinds == {"service", "stream"}
GenericKinds == {"my-kind"}

\* The aud a caller puts in the options: none, or one of its own.
Auds == {Undefined, Str("hello")}

Options(scoped) ==
    {EncodingOptions(a, s, d[1], d[2], sc, aud) :
        a \in Algorithms, s \in Signers, d \in ValidDates, sc \in scoped,
        aud \in Auds}

ObjIds == {1}

\* The payload objects a caller holds (Partial<Account>, Partial<User>,
\* Partial<Activation>, Partial<Generic>): empty, an activation's subject, a
\* user's limit with an issuer_account, and payloads that carry the type,
\* version, kind and issuer_account fields their types declare.
InitPayloads ==
    { <<>>,
      << <<"subject", Str("foo")>> >>,
      << <<"data", Num(10)>>, <<"issuer_account", Str("A2")>> >>,
      << <<"type", Str(Types_Account)>>, <<"version", Num(2)>> >>,
      << <<"subject", Str("foo")>>, <<"issuer_account", Str("A2")>>,
         <<"kind", Str("stream")>>, <<"type", Str(Types_Activation)>>,
         <<"version", Num(2)>> >> }

NoCall ==
    [fn |-> "", name |-> "", subject |-> NoKey, issuer |-> NoKey,
     kind |-> "", ref |-> 0, payload |-> <<>>,
     opts |-> EncodingOptions("", NoKey, Undefined, Undefined, FALSE, Undefined)]

Call(fn, name, subject, iss, kind, ref, opts) ==
    [fn |-> fn, name |-> name, subject |-> subject, issuer |-> iss,
     kind |-> kind, ref |-> ref, payload |-> heap[ref], opts |-> opts]

NoDecode == [err |-> "", claim |-> <<>>]

NoneHeld == [act |-> <<>>, acc |-> <<>>]

NoResult == [err |-> "not called", result |-> FALSE]

NoCodec == [step |-> "none"]

NoLimits == [step |-> "none"]

NoCreds == [step |-> "none"]

NoFlight == <<>>

\* The byte sequences the random generator is taken to yield.
RandomBytes ==
    { [i \in 1..IdLen |-> 0], [i \in 1..IdLen |-> (21 * i) % 255] }

\* The runtimes: with a digest primitive (browser, Deno), or without one.
Runtimes ==
    { [subtle |-> TRUE, random |-> [i \in 1..IdLen |-> 0]] }
    \cup { [subtle |-> FALSE, random |-> r] : r \in RandomBytes }

Init ==
    /\ heap \in [ObjIds -> InitPayloads]
    /\ now = 0
    /\ pc = "idle"
    /\ call = NoCall
    /\ err = ""
    /\ tok = <<>>
    /\ signed = {}
    /\ tampered = {}
    /\ dec = NoDecode
    /\ env \in Runtimes
    /\ held = NoneHeld
    /\ eqv = NoResult
    /\ codec = NoCodec
    /\ limits = NoLimits
    /\ creds = NoCreds
    /\ flight = NoFlight

\* An encode call returns (or throws): r is its outcome.
Return(c, r) ==
    /\ heap' = [heap EXCEPT ![c.ref] = r.payload]
    /\ err' = r.err
    /\ tok' = r.chunks
    /\ signed' = r.signed
    /\ call' = c
    /\ pc' = "returned"
    /\ UNCHANGED <<now, tampered, dec, env, held, eqv,
                   codec, limits, creds, flight>>

EncodeOperator ==
    /\ pc = "idle"
    /\ \E name \in Names, okp \in Subjects, ref \in ObjIds,
          opts \in Options({FALSE}) :
          Return(Call("encodeOperator", name, okp, NoKey, "", ref, opts),
                 encodeOperator(name, okp, heap[ref], opts, now))

EncodeAccount ==
    /\ pc = "idle"
    /\ \E name \in Names, akp \in Subjects, ref \in ObjIds,
          opts \in Options({FALSE}) :
          Return(Call("encodeAccount", name, akp, NoKey, "", ref, opts),
                 encodeAccount(name, akp, heap[ref], opts, now))

EncodeUser ==
    /\ pc = "idle"
    /\ \E name \in Names, ukp \in Subjects, iss \in Issuers, ref \in ObjIds,
          opts \in Options(BOOLEAN) :
          Return(Call("encodeUser", name, ukp, iss, "", ref, opts),
                 encodeUser(name, ukp, iss, heap[ref], opts, now))

EncodeActivation ==
    /\ pc = "idle"
    /\ \E name \in Names, subject \in Subjects, iss \in Issuers,
          kind \in ActivationKinds, ref \in ObjIds, opts \in Options({FALSE}) :
          Return(Call("encodeActivation", name, subject, iss, kind, ref, opts),
                 encodeActivation(name, subject, iss, kind, heap[ref], opts, now))

EncodeGeneric ==
    /\ pc = "idle"
    /\ \E name \in Names, akp \in Subjects, kind \in GenericKinds,
          ref \in ObjIds, opts \in Options({FALSE}) :
          Return(Call("encodeGeneric", name, akp, NoKey, kind, ref, opts),
                 encodeGeneric(name, akp, kind, heap[ref], opts, now))

\* The caller decodes the token it was given.
Decode ==
    /\ pc = "returned"
    /\ err = ""
    /\ dec' = decode(tok, signed)
    /\ pc' = "decoded"
    /\ UNCHANGED <<heap, now, call, err, tok, signed, tampered, env, held, eqv,
                   codec, limits, creds, flight>>

\* Time passes.
Tick ==
    /\ now < MaxTime
    /\ now' = now + 1
    /\ UNCHANGED <<heap, pc, call, err, tok, signed, tampered, dec, env, held, eqv,
                   codec, limits, creds, flight>>

Next ==
    \/ EncodeOperator
    \/ EncodeAccount
    \/ EncodeUser
    \/ EncodeActivation
    \/ EncodeGeneric
    \/ Decode
    \/ Tick

Spec == Init /\ [][Next]_vars

-----------------------------------------------------------------------------
(* Tokens that are changed on the way: a second specification, in which a  *)
(* token emitted by one of a few valid encode calls has chunks replaced    *)
(* before it is decoded.                                                   *)

\* The calls that emit the tokens: every encoder, under v1 and under v2.
IssueCalls ==
    LET opts(a, s) == EncodingOptions(a, s, Undefined, Undefined, FALSE, Undefined)
    IN  UNION {
          { Call("encodeOperator", "N", Seed("O1"), NoKey, "", r, opts(a, NoKey)),
            Call("encodeAccount", "N", Seed("A1"), NoKey, "", r, opts(a, Seed("O2"))),
            Call("encodeUser", "N", Public("U1"), Seed("A1"), "", r, opts(a, NoKey)),
            Call("encodeActivation", "N", Public("A1"), Seed("A1"), "service", r,
                 opts(a, Seed("A2"))),
            Call("encodeGeneric", "N", Seed("A1"), NoKey, "my-kind", r, opts(a, NoKey)),
            Call("encodeGeneric", "N", Seed("U1"), NoKey, Types_User, r, opts(a, NoKey)),
            Call("encodeGeneric", "N", Seed("O1"), NoKey, Types_User, r, opts(a, NoKey)),
            Call("encodeAccount", "N", Seed("A1"), NoKey, "", r, opts(a, NoKey)),
            Call("encodeAccount", "N", SeedBytes("A1"), NoKey, "", r, opts(a, NoKey)),
            Call("encodeAccount", "N", SeedText("A1"), NoKey, "", r, opts(a, NoKey)),
            Call("encodeUser", "N", Seed("U1"), SeedBytes("A1"), "", r, opts(a, NoKey)) }
          : a \in {Algorithms_v1, Algorithms_v2}, r \in ObjIds }

\* The encoder a call names, applied to the call's arguments at time t.
Invoke(c, t) ==
    CASE c.fn = "encodeOperator" ->
           encodeOperator(c.name, c.subject, c.payload, c.opts, t)
      [] c.fn = "encodeAccount" ->
           encodeAccount(c.name, c.subject, c.payload, c.opts, t)
      [] c.fn = "encodeUser" ->
           encodeUser(c.name, c.subject, c.issuer, c.payload, c.opts, t)
      [] c.fn = "encodeActivation" ->
           encodeActivation(c.name, c.subject, c.issuer, c.kind, c.payload,
                            c.opts, t)
      [] c.fn = "encodeGeneric" ->
           encodeGeneric(c.name, c.subject, c.kind, c.payload, c.opts, t)

Issue ==
    /\ pc = "idle"
    /\ \E c \in IssueCalls : Return(c, Invoke(c, now))

\* The header chunks a token's first chunk may be replaced by.
HeaderChunks ==
    { [b64url |-> JSONstringify(<< <<"typ", Str(typ)>>, <<"alg", Str(alg)>> >>),
       spelling |-> sp] :
        typ \in {"JWT", "jwt", "Jwt", "Foo"},
        alg \in {Algorithms_v1, Algorithms_v2, "HS256"},
        sp \in {"canonical", "other"} }
    \cup { [b64url |-> NotJSON, spelling |-> "canonical"],
           [b64url |-> NotJSON, spelling |-> "invalid"] }

\* The payload chunks a payload chunk b may be replaced by: the same text
\* spelt another way, the claim with a property changed or removed, and
\* chunks that are no JSON or no base64.
PayloadChunks(b) ==
    LET c == JSONparse(b.b64url)
        Without(k) == SelectSeq(c, LAMBDA p : p[1] # k)
        text(o) == [b64url |-> JSONstringify(o), spelling |-> "canonical"]
    IN  { [b64url |-> b.b64url, spelling |-> "other"],
          text(Put(c, "name", Str("M"))),
          text(Put(c, "sub", Str("A2"))),
          text(Put(c, "iss", Str("A2"))),
          text(Put(c, "iss", Str("not a key"))),
          text(Without("iss")),
          text(Without("jti")),
          text(PutNats(c, "subject", Str("bar"))),
          [b64url |-> NotJSON, spelling |-> "canonical"],
          [b64url |-> b.b64url, spelling |-> "invalid"] }

\* The characters a signature chunk's character may be replaced by.
Chars == B64Chars \cup {"-", "_", "=", " ", "!"}

TamperHeader ==
    /\ pc = "returned"
    /\ err = ""
    /\ tampered \cap {1, 3} = {}
    /\ \E h \in HeaderChunks \ {tok[1]} : tok' = [tok EXCEPT ![1] = h]
    /\ tampered' = tampered \cup {1}
    /\ UNCHANGED <<heap, now, pc, call, err, signed, dec, env, held, eqv,
                   codec, limits, creds, flight>>

TamperPayload ==
    /\ pc = "returned"
    /\ err = ""
    /\ tampered \cap {2, 3} = {}
    /\ \E b \in PayloadChunks(tok[2]) \ {tok[2]} : tok' = [tok EXCEPT ![2] = b]
    /\ tampered' = tampered \cup {2}
    /\ UNCHANGED <<heap, now, pc, call, err, signed, dec, env, held, eqv,
                   codec, limits, creds, flight>>

\* One character of the signature chunk of an emitted token is changed.
TamperSignature ==
    /\ pc = "returned"
    /\ err = ""
    /\ tampered = {}
    /\ \E i \in DOMAIN tok[3] :
          \E c \in Chars \ {tok[3][i]} :
             tok' = [tok EXCEPT ![3] = [tok[3] EXCEPT ![i] = c]]
    /\ tampered' = {3}
    /\ UNCHANGED <<heap, now, pc, call, err, signed, dec, env, held, eqv,
                   codec, limits, creds, flight>>

\* What jwt.split(".") gives for strings with too few or too many dots: a
\* token cut short, a token with a dot added, and garbage of each length.
MalformedChunks(t) ==
    LET bad == [b64url |-> NotJSON, spelling |-> "invalid"]
    IN  { <<t[1]>>, <<bad>>,
          <<t[1], t[2]>>, <<bad, bad>>,
          <<t[1], t[2], t[3], t[3]>>, <<t[1], t[2], t[3], <<>> >>,
          <<bad, bad, <<"!">>, <<"!">> >> }

\* The caller decodes a string that is not three chunks.
DecodeMalformed ==
    /\ pc = "returned"
    /\ err = ""
    /\ tampered = {}
    /\ \E chunks \in MalformedChunks(tok) :
          /\ tok' = chunks
          /\ dec' = decode(chunks, signed)
    /\ tampered' = {0}
    /\ pc' = "decoded"
    /\ UNCHANGED <<heap, now, call, err, signed, env, held, eqv,
                   codec, limits, creds, flight>>

TamperNext ==
    \/ Issue
    \/ TamperHeader
    \/ TamperPayload
    \/ TamperSignature
    \/ Decode
    \/ DecodeMalformed

TamperSpec == Init /\ [][TamperNext]_vars

-----------------------------------------------------------------------------
(* Tokens that are compared: a third specification, in which a caller      *)
(* encodes activations, encodes two claims (accounts with an import that   *)
(* may carry one of the activations, or a user) and calls equivalent.      *)

\* The shapes of an import: the first, and it with one property changed.
ImportShapes ==
    { [subject |-> "a.b", type |-> "service", key |-> "to"],
      [subject |-> "a.c", type |-> "service", key |-> "to"],
      [subject |-> "a.b", type |-> "stream", key |-> "to"],
      [subject |-> "a.b", type |-> "service", key |-> "local_subject"] }

NoImport == [subject |-> "", type |-> "", key |-> ""]

\* In place of a held token: an activation token that reached the caller
\* from elsewhere, signed under v1 with its header's typ written "Jwt".
Foreign == -1

ForeignActivation ==
    LET r == encodeActivation("test", Public("A1"), Public("A2"), "service",
                 << <<"subject", Str("ab")>> >>,
                 EncodingOptions(Algorithms_v1, Seed("A2"), Undefined,
                                 Undefined, FALSE, Undefined),
                 0)
        h == [b64url |-> JSONstringify(<< <<"typ", Str("Jwt")>>,
                                          <<"alg", Str(Algorithms_v1)>> >>),
              spelling |-> "canonical"]
    IN  [chunks |-> [r.chunks EXCEPT ![1] = h], signed |-> r.signed]

\* The import of a shape, with the token held at place n (0: no token).
Import(shape, n) ==
    LET im == << <<"name", Str("srv")>>, <<"subject", Str(shape.subject)>>,
                 <<shape.key, Str("ab")>>, <<"account", Str("A2")>>,
                 <<"type", Str(shape.type)>> >>
    IN  Obj(IF n = 0 THEN im
            ELSE IF n = Foreign
            THEN Put(im, "token", Jwt(ForeignActivation.chunks))
            ELSE Put(im, "token", Jwt(held.act[n].tok)))

\* The account payload: no imports, or one import.
AccountPayload(shape, n) ==
    IF shape = NoImport THEN <<>>
    ELSE << <<"imports", Arr(<<Import(shape, n)>>)>> >>

\* The activation subjects the importing account is granted.
ActivationSubjects == {"ab", "cd"}

MaxHeld == 2

EquivInit ==
    /\ Init
    /\ heap = [o \in ObjIds |-> <<>>]
    /\ env.subtle

\* encodeActivation("test", akp.getPublicKey(), srv.getPublicKey(),
\* "service", { subject }, { signer: srv }); the token is kept.
HoldActivation ==
    /\ eqv = NoResult
    /\ Len(held.act) < MaxHeld
    /\ \E subject \in ActivationSubjects :
          LET r == encodeActivation("test", Public("A1"), Public("A2"),
                       "service", << <<"subject", Str(subject)>> >>,
                       EncodingOptions("", Seed("A2"), Undefined, Undefined,
                                       FALSE, Undefined),
                       now)
          IN  /\ r.err = ""
              /\ held' = [held EXCEPT !.act =
                            Append(@, [subject |-> subject, tok |-> r.chunks])]
              /\ signed' = signed \cup r.signed
    /\ UNCHANGED <<heap, now, pc, call, err, tok, tampered, dec, env, eqv,
                   codec, limits, creds, flight>>

\* encodeAccount(name, akp, { imports }, { signer: okp }); the token is kept
\* with the arguments that made it.
HoldAccount ==
    /\ eqv = NoResult
    /\ Len(held.acc) < MaxHeld
    /\ \E name \in {"A", "B"},
          shape \in ImportShapes \cup {NoImport},
          n \in 0..Len(held.act) \cup {Foreign} :
          LET r == encodeAccount(name, Seed("A1"), AccountPayload(shape, n),
                       EncodingOptions("", Seed("O2"), Undefined, Undefined,
                                       FALSE, Undefined),
                       now)
          IN  /\ shape = NoImport => n = 0
              /\ n = Foreign => (name = "A" /\ shape.key = "local_subject")
              /\ r.err = ""
              /\ held' = [held EXCEPT !.acc =
                            Append(@, [fn |-> "encodeAccount", name |-> name,
                                       shape |-> shape, n |-> n,
                                       tok |-> r.chunks])]
              /\ signed' = signed \cup r.signed
                              \cup (IF n = Foreign
                                    THEN ForeignActivation.signed ELSE {})
    /\ UNCHANGED <<heap, now, pc, call, err, tok, tampered, dec, env, eqv,
                   codec, limits, creds, flight>>

\* encodeUser("A", createUser(), akp, {}); the token is kept.
HoldUser ==
    /\ eqv = NoResult
    /\ Len(held.acc) < MaxHeld
    /\ LET r == encodeUser("A", Seed("U1"), Seed("A1"), <<>>,
                    EncodingOptions("", NoKey, Undefined, Undefined, FALSE,
                                    Undefined),
                    now)
       IN  /\ r.err = ""
           /\ held' = [held EXCEPT !.acc =
                         Append(@, [fn |-> "encodeUser", name |-> "A",
                                    shape |-> NoImport, n |-> 0,
                                    tok |-> r.chunks])]
           /\ signed' = signed \cup r.signed
    /\ UNCHANGED <<heap, now, pc, call, err, tok, tampered, dec, env, eqv,
                   codec, limits, creds, flight>>

\* equivalent(a, b) of the two claims kept.
Equivalent ==
    /\ eqv = NoResult
    /\ Len(held.acc) = MaxHeld
    /\ eqv' = equivalent(held.acc[1].tok, held.acc[2].tok, signed)
    /\ UNCHANGED <<heap, now, pc, call, err, tok, signed, tampered, dec, env,
                   held,
                   codec, limits, creds, flight>>

EquivNext ==
    \/ HoldActivation
    \/ HoldAccount
    \/ HoldUser
    \/ Equivalent
    \/ Tick

EquivSpec == EquivInit /\ [][EquivNext]_vars

-----------------------------------------------------------------------------
(* The codec on its own: a fourth specification, in which Base64UrlCodec   *)
(* encodes a byte array or a string and decodes what it wrote.             *)

\* The longest value given to the codec.
MaxCodecLen == 3

\* Bytes whose encoding meets every case: 251 and 255 give '+' and '/'.
CodecBytes == {0, 1, 251, 255}
\* Characters: 'A', the last of Latin-1, and the euro sign.
CodecChars == {65, 255, 8364}

SeqsUpTo(S, n) == UNION {[1..k -> S] : k \in 0..n}

CodecInit ==
    /\ Init
    /\ heap = [o \in ObjIds |-> <<>>]
    /\ env.subtle

\* Base64UrlCodec.encode(bytes) of a Uint8Array.
CodecEncodeBytes ==
    /\ codec = NoCodec
    /\ \E b \in SeqsUpTo(CodecBytes, MaxCodecLen) :
          codec' = [step |-> "encoded", kind |-> "bytes", input |-> b,
                    ok |-> TRUE, text |-> Base64UrlCodec_encode(b)]
    /\ UNCHANGED <<heap, now, pc, call, err, tok, signed, tampered, dec, env,
                   held, eqv, limits, creds, flight>>

\* Base64UrlCodec.encode(s) of a string.
CodecEncodeString ==
    /\ codec = NoCodec
    /\ \E t \in SeqsUpTo(CodecChars, MaxCodecLen) :
          LET e == Base64UrlCodec_encodeString(t)
          IN  codec' = [step |-> "encoded", kind |-> "text", input |-> t,
                        ok |-> e.ok, text |-> e.text]
    /\ UNCHANGED <<heap, now, pc, call, err, tok, signed, tampered, dec, env,
                   held, eqv, limits, creds, flight>>

\* Base64UrlCodec.decode(text, binary) of what encode returned.
CodecDecode ==
    /\ codec.step = "encoded"
    /\ codec.ok
    /\ codec' = [step |-> "decoded", kind |-> codec.kind,
                 input |-> codec.input, ok |-> TRUE, text |-> codec.text,
                 back |-> Base64UrlCodec_decode(codec.text)]
    /\ UNCHANGED <<heap, now, pc, call, err, tok, signed, tampered, dec, env,
                   held, eqv, limits, creds, flight>>

CodecNext ==
    \/ CodecEncodeBytes
    \/ CodecEncodeString
    \/ CodecDecode

CodecSpec == CodecInit /\ [][CodecNext]_vars

-----------------------------------------------------------------------------
(* The default limits on their own: a fifth specification, in which        *)
(* defaultUserPermissionsLimits and newScopedSigner are given a partial    *)
(* set of limits.                                                          *)

\* Objects of the properties chosen from ps: one object per subset.
RECURSIVE Choices(_)
Choices(ps) ==
    IF ps = <<>> THEN {<<>>}
    ELSE LET rest == Choices(Tail(ps))
         IN  rest \cup {<<Head(ps)>> \o r : r \in rest}

\* What a caller gives for sub: nothing, a permission with allow alone (as
\* in the tests), with deny alone, or with both.
SubPermissions ==
    { <<>>,
      << <<"sub", Obj(<< <<"allow", Arr(<<Str("foo")>>)>> >>)>> >>,
      << <<"sub", Obj(<< <<"deny", Arr(<<Str("bar")>>)>> >>)>> >>,
      << <<"sub", Obj(<< <<"allow", Arr(<<Str("foo")>>)>>,
                         <<"deny", Arr(<<Str("bar")>>)>> >>)>> >> }

\* What a caller gives for resp: nothing, max alone, or max and ttl.
RespPermissions ==
    { <<>>,
      << <<"resp", Obj(<< <<"max", Num(1)>> >>)>> >>,
      << <<"resp", Obj(<< <<"max", Num(1)>>, <<"ttl", Num(5)>> >>)>> >> }

\* The partial limits d: sub, resp and any of four top-level properties.
PartialLimits ==
    { sub \o resp \o top :
        sub \in SubPermissions, resp \in RespPermissions,
        top \in Choices(<< <<"data", Num(10)>>,
                          <<"bearer_token", Bool(TRUE)>>,
                          <<"locale", Str("en")>>,
                          <<"src", Arr(<<Str("10.0.0.0/8")>>)>> >>) }

LimitsInit ==
    /\ Init
    /\ heap = [o \in ObjIds |-> <<>>]
    /\ env.subtle

\* defaultUserPermissionsLimits(d)
DefaultUserPermissionsLimits ==
    /\ limits = NoLimits
    /\ \E d \in PartialLimits :
          limits' = [step |-> "defaults", d |-> d, err |-> "",
                     result |-> defaultUserPermissionsLimits(d)]
    /\ UNCHANGED <<heap, now, pc, call, err, tok, signed, tampered, dec, env,
                   held, eqv, codec, creds, flight>>

\* newScopedSigner(signer, "anyrole", d); result is the template it stores.
NewScopedSigner ==
    /\ limits = NoLimits
    /\ \E d \in PartialLimits,
          signer \in {Seed("A1"), Public("A2"), Seed("U1")} :
          LET r == newScopedSigner(signer, "anyrole", d)
          IN  limits' = [step |-> "signer", d |-> d, err |-> r.err,
                         result |-> IF r.err = "" THEN Get(r.s, "template").obj
                                    ELSE <<>>]
    /\ UNCHANGED <<heap, now, pc, call, err, tok, signed, tampered, dec, env,
                   held, eqv, codec, creds, flight>>

LimitsNext ==
    \/ DefaultUserPermissionsLimits
    \/ NewScopedSigner

LimitsSpec == LimitsInit /\ [][LimitsNext]_vars

-----------------------------------------------------------------------------
(* Credentials: a sixth specification, in which a token is issued,         *)
(* formatted with a key pair's seed, and the text, whole or damaged, is    *)
(* parsed.                                                                 *)

\* The calls that emit the tokens: users issued by the account or by a
\* signing key of it, and an account.
CredsCalls ==
    LET opts(a, s) == EncodingOptions(a, s, Undefined, Undefined, FALSE, Undefined)
    IN  UNION {
          { Call("encodeUser", "N", Public("U1"), Seed("A1"), "", r, opts(a, NoKey)),
            Call("encodeUser", "N", Public("U1"), Seed("A1"), "", r,
                 opts(a, Seed("A2"))),
            Call("encodeAccount", "N", Seed("A1"), NoKey, "", r, opts(a, NoKey)) }
          : a \in {Algorithms_v1, Algorithms_v2}, r \in ObjIds }

\* The key pairs whose seed is written: createUser(), createAccount().
CredsKeyPairs == {KeyPair("U1", TRUE), KeyPair("A1", TRUE)}

\* Line i of a text taken out, or replaced by line l.
WithoutLine(text, i) ==
    CredsText(SubSeq(text.lines, 1, i - 1)
                \o SubSeq(text.lines, i + 1, Len(text.lines)), text.eol)
WithLine(text, i, l) ==
    CredsText([text.lines EXCEPT ![i] = l], text.eol)

\* The texts parseCreds may be given in place of the text c that fmtCreds
\* wrote: c itself; c with blanks around the token and the seed, with an
\* empty line before a closing line of dashes, without the notice, without
\* the last newline; one of the two blocks alone; the token block alone
\* with another text for the token; that text and the seed block; the
\* notice alone; nothing.
CredsTexts(c) ==
    LET l == c.lines
        other == TextLine(Str("eyJ0eXAi"), FALSE)
    IN  { c,
          WithLine(WithLine(c, 2, TextLine(l[2].text, TRUE)),
                   10, TextLine(l[10].text, TRUE)),
          CredsText(SubSeq(l, 1, 2) \o <<EmptyLine>> \o SubSeq(l, 3, 11), TRUE),
          CredsText(SubSeq(l, 1, 3) \o SubSeq(l, 9, 11), TRUE),
          CredsText(l, FALSE),
          CredsText(SubSeq(l, 1, 8), TRUE),
          CredsText(SubSeq(l, 4, 11), TRUE),
          CredsText(SubSeq(l, 1, 3), FALSE),
          CredsText(<<l[1], other, l[3]>>, TRUE),
          WithLine(c, 2, other),
          WithoutLine(c, 1),
          CredsText(SubSeq(l, 4, 8), TRUE),
          CredsText(<<>>, FALSE) }

IssueCreds ==
    /\ pc = "idle"
    /\ \E c \in CredsCalls : Return(c, Invoke(c, now))

\* fmtCreds(tok, kp) of the token an encode call returned.
FmtCreds ==
    /\ pc = "returned"
    /\ err = ""
    /\ creds = NoCreds
    /\ \E kp \in CredsKeyPairs :
          creds' = [step |-> "formatted", kp |-> kp,
                    written |-> fmtCreds(Jwt(tok), kp),
                    text |-> fmtCreds(Jwt(tok), kp),
                    parsed |-> Parsed("not called", Undefined, Undefined,
                                      <<>>, Undefined)]
    /\ UNCHANGED <<heap, now, pc, call, err, tok, signed, tampered, dec, env,
                   held, eqv, codec, limits, flight>>

\* parseCreds(text) of the text written or of a text made from it.
ParseCreds ==
    /\ creds.step = "formatted"
    /\ \E text \in CredsTexts(creds.written) :
          creds' = [creds EXCEPT !.step = "parsed", !.text = text,
                                 !.parsed = parseCreds(text, signed)]
    /\ UNCHANGED <<heap, now, pc, call, err, tok, signed, tampered, dec, env,
                   held, eqv, codec, limits, flight>>

CredsNext ==
    \/ IssueCreds
    \/ FmtCreds
    \/ ParseCreds

CredsSpec == Init /\ [][CredsNext]_vars

-----------------------------------------------------------------------------
(* Calls in flight: a seventh specification, in which encodeActivation is  *)
(* called while an earlier call waits for its digest.  A call runs from    *)
(* its start to encode's await in one step, and from the arrival of the    *)
(* digest to its return in another; where there is no crypto.subtle there  *)
(* is no await and the call runs in one step.                              *)

\* The calls in flight at a time, and in all.
MaxFlight == 2

\* A payload object of the call's own ({} made for the call), as opposed to
\* an object of the heap that other calls are handed too.
Private == 0

\* The encodeActivation calls: either kind, any algorithm, with and without
\* a signing key, on the shared object or on an object of their own.
FlightCalls ==
    { [fn |-> "encodeActivation", name |-> "N", subject |-> Public("A1"),
       issuer |-> iss, kind |-> kind, ref |-> ref,
       payload |-> IF ref = Private THEN <<>> ELSE heap[ref],
       opts |-> EncodingOptions(a, s, Undefined, Undefined, FALSE, Undefined)] :
        iss \in {Seed("A1"), Public("A1")},
        kind \in {"service", "stream"}, ref \in ObjIds \cup {Private},
        a \in {"", Algorithms_v1, Algorithms_v2}, s \in {NoKey, Seed("A2")} }

\* The payload object of a call in flight as it is now.
PayloadNow(f) == IF f.c.ref = Private THEN Nats(f.claim) ELSE heap[f.c.ref]

\* The claim object of a call in flight: claim.nats is the payload object.
ClaimNow(f) == Put(f.claim, "nats", Obj(PayloadNow(f)))

Waiting(f) == f.state = "awaiting"

\* A call's frame when it throws before encode.
Rejected(c, e) ==
    [c |-> c, state |-> "rejected", err |-> e, algorithm |-> "",
     claim |-> <<>>, data |-> <<>>, kp |-> KeyPair("", FALSE),
     chunks |-> <<>>, after |-> c.payload, opts |-> c.opts, overlapped |-> FALSE]

\* encodeActivation from its start to the await, or to its return where
\* nothing is awaited.
Begin ==
    /\ Len(flight) < MaxFlight
    /\ \E c \in FlightCalls :
          LET p == activationClaim(c.name, c.subject, c.issuer, c.kind,
                                   c.payload, c.opts)
              e == encodeToAwait(p.algorithm, p.claim, p.kp, now)
              r == encodeFromAwait(p.algorithm, e.claim, e.data, p.kp)
              over == \E i \in DOMAIN flight : Waiting(flight[i])
              f == [c |-> c,
                    state |-> IF env.subtle THEN "awaiting"
                              ELSE IF r.err # "" THEN "rejected"
                              ELSE "returned",
                    err |-> IF env.subtle THEN "" ELSE r.err,
                    algorithm |-> p.algorithm, claim |-> e.claim,
                    data |-> e.data, kp |-> p.kp,
                    chunks |-> IF env.subtle THEN <<>> ELSE r.chunks,
                    after |-> Nats(e.claim),
                    opts |-> initAlgorithm(c.opts),
                    overlapped |-> over]
              marked == [i \in DOMAIN flight |->
                           IF Waiting(flight[i])
                           THEN [flight[i] EXCEPT !.overlapped = TRUE]
                           ELSE flight[i]]
          IN  IF p.err # ""
              THEN /\ flight' = Append(flight, Rejected(c, p.err))
                   /\ UNCHANGED <<heap, signed>>
              ELSE /\ flight' = Append(marked, f)
                   /\ heap' = IF c.ref = Private THEN heap
                              ELSE [heap EXCEPT ![c.ref] = Nats(e.claim)]
                   /\ signed' = IF env.subtle THEN signed
                                ELSE signed \cup r.signed
    /\ UNCHANGED <<now, pc, call, err, tok, tampered, dec, env, held, eqv,
                   codec, limits, creds>>

\* The digest of a waiting call arrives: the call runs to its return.
Resume ==
    /\ \E i \in DOMAIN flight :
          /\ Waiting(flight[i])
          /\ LET f == flight[i]
                 r == encodeFromAwait(f.algorithm, ClaimNow(f), f.data, f.kp)
             IN  /\ flight' = [flight EXCEPT
                                 ![i].state = IF r.err # "" THEN "rejected"
                                              ELSE "returned",
                                 ![i].err = r.err,
                                 ![i].chunks = r.chunks]
                 /\ signed' = signed \cup r.signed
    /\ UNCHANGED <<heap, now, pc, call, err, tok, tampered, dec, env, held,
                   eqv, codec, limits, creds>>

FlightNext ==
    \/ Begin
    \/ Resume

FlightSpec == Init /\ [][FlightNext]_vars

-----------------------------------------------------------------------------
(* A payload object used again: an eighth specification, in which encode   *)
(* calls follow one another on one payload object.                         *)

\* The payload objects a caller starts with.
FreshPayloads == { <<>>, << <<"subject", Str("foo")>> >> }

\* The calls: an account, a user and an activation, each under either
\* algorithm or none, issued by the account's key or by a signing key.
ReuseCalls ==
    LET opts(a, s) == EncodingOptions(a, s, Undefined, Undefined, FALSE, Undefined)
    IN  UNION {
          { Call("encodeAccount", "N", Seed("A1"), NoKey, "", r, opts(a, NoKey)),
            Call("encodeAccount", "N", Public("A1"), NoKey, "", r,
                 opts(a, Seed("O1"))),
            Call("encodeUser", "N", Public("U1"), Seed("A1"), "", r,
                 opts(a, NoKey)),
            Call("encodeUser", "N", Public("U1"), Public("A1"), "", r,
                 opts(a, Seed("A2"))),
            Call("encodeActivation", "N", Public("A1"), Seed("A1"), "service", r,
                 opts(a, NoKey)),
            Call("encodeActivation", "N", Public("A1"), Public("A1"), "service",
                 r, opts(a, Seed("A2"))) }
          : a \in {"", Algorithms_v1, Algorithms_v2}, r \in ObjIds }

ReuseInit ==
    /\ Init
    /\ heap \in [ObjIds -> FreshPayloads]

\* One encode call from start to return: the frame keeps the payload and
\* options objects as the call leaves them.
EncodeAgain ==
    /\ Len(flight) < MaxFlight
    /\ \E c \in ReuseCalls :
          LET r == Invoke(c, now)
          IN  /\ heap' = [heap EXCEPT ![c.ref] = r.payload]
              /\ signed' = signed \cup r.signed
              /\ flight' = Append(flight,
                     [c |-> c, err |-> r.err, chunks |-> r.chunks,
                      after |-> r.payload, opts |-> initAlgorithm(c.opts)])
    /\ UNCHANGED <<now, pc, call, err, tok, tampered, dec, env, held, eqv,
                   codec, limits, creds>>

ReuseNext == EncodeAgain \/ Tick

ReuseSpec == ReuseInit /\ [][ReuseNext]_vars

-----------------------------------------------------------------------------
(* The claims.                                                             *)

\* The algorithm an encode call signs under.
IssuedAlgorithm == initAlgorithm(call.opts).algorithm

\* A chunk that decodes to a JSON text.
Readable(chunk) == chunk.spelling # "invalid" /\ IsJSON(chunk.b64url)

\* The header chunk names a typ and an alg that decode accepts.
HeaderRecognised(chunk) ==
    /\ Readable(chunk)
    /\ Get(JSONparse(chunk.b64url), "typ") \in {Str("jwt"), Str("JWT")}
    /\ Get(JSONparse(chunk.b64url), "alg")
          \in {Str(Algorithms_v1), Str(Algorithms_v2)}

\* The payload chunk names an issuer that is a public key.
PayloadNamesKey(chunk) ==
    /\ Readable(chunk)
    /\ \E pk \in PubKeys : Get(JSONparse(chunk.b64url), "iss") = Str(pk)

\* The signature chunk of tok holds a signature that the key named by the
\* payload's iss produced over the signing input of the header's alg:
\* header.payload for ed25519-nkey, the payload chunk alone for ed25519.
VerifiesUnderIss ==
    /\ HeaderRecognised(tok[1])
    /\ PayloadNamesKey(tok[2])
    /\ \E r \in signed :
          /\ Str(r.pk) = Get(JSONparse(tok[2].b64url), "iss")
          /\ r.input =
               IF Get(JSONparse(tok[1].b64url), "alg") = Str(Algorithms_v2)
               THEN <<tok[1], tok[2]>> ELSE <<tok[2]>>
          /\ Base64UrlCodec_decode(tok[3]).ok
          /\ r.sig = Base64UrlCodec_decode(tok[3]).bytes

\* C1 as stated: decode returns an envelope only if the signature verifies
\* under the key named by iss over the algorithm's signing input; every
\* emitted token decodes; and a v2 token whose header or payload chunk was
\* changed fails with 'sig verification failed'.
C1_AnyChangeIsSigFailure ==
    pc = "decoded" =>
       /\ dec.err = "" => VerifiesUnderIss
       /\ tampered = {} => dec.err = ""
       /\ (IssuedAlgorithm = Algorithms_v2 /\ tampered \cap {1, 2} # {})
             => dec.err = SigVerificationFailed

\* C1 amended: as C1, but a changed v2 token fails with 'sig verification
\* failed' when the changed header is still recognised and the changed
\* payload still names an issuer key; otherwise it fails with the header,
\* parse or key error. It never decodes.
C1_DecodeVerifiesSignature ==
    pc = "decoded" =>
       /\ dec.err = "" => VerifiesUnderIss
       /\ tampered = {} => dec.err = ""
       /\ (IssuedAlgorithm = Algorithms_v2 /\ tampered \cap {1, 2} # {})
             => /\ dec.err # ""
                /\ (HeaderRecognised(tok[1]) /\ PayloadNamesKey(tok[2]))
                      => dec.err = SigVerificationFailed

\* C1 witness: a v2 token with a changed, still recognised header chunk and
\* a changed payload chunk is refused for its signature.
C1_Witness ==
    /\ pc = "decoded"
    /\ IssuedAlgorithm = Algorithms_v2
    /\ tampered = {1, 2}
    /\ HeaderRecognised(tok[1])
    /\ dec.err = SigVerificationFailed

\* C3 as stated, its second half: after one character of a valid token's
\* signature chunk is changed, decode does not return an envelope.
C3_NoAlteredSignatureAccepted ==
    (pc = "decoded" /\ tampered = {3}) => dec.err # ""

\* The claim a token's payload chunk spells.
TokenClaim == JSONparse(tok[2].b64url)

\* An encode call returned a token.
Emitted == pc # "idle" /\ err = ""

\* An encode call threw.
Threw == pc # "idle" /\ err # ""

KeyType(key) == charAt0(key.pub)

\* The fields of nats an encode call writes itself: the discriminants of
\* its algorithm, an activation's kind, and issuer_account under a signer.
EncoderWrites(c) ==
    (IF initAlgorithm(c.opts).algorithm = Algorithms_v2
     THEN {"type", "version"} ELSE {})
    \cup (IF c.fn = "encodeActivation"
          THEN (IF initAlgorithm(c.opts).algorithm = Algorithms_v2
                THEN {"kind"} ELSE {"type"})
          ELSE {})
    \cup (IF c.fn \in {"encodeUser", "encodeActivation"} /\ HasSigner(c.opts)
          THEN {"issuer_account"} ELSE {})

\* name, sub, exp and nbf of the decoded claim are the call's.
EnvelopeReproduced ==
    /\ dec.err = ""
    /\ Get(dec.claim, "name") = Str(call.name)
    /\ Get(dec.claim, "sub") = Str(call.subject.pub)
    /\ Get(dec.claim, "exp") = call.opts.exp
    /\ Get(dec.claim, "nbf") = call.opts.nbf

C4_IssuerPolicy ==
    Emitted =>
       LET t == charAt0(Get(TokenClaim, "iss").str)
       IN  /\ call.fn = "encodeOperator" => t = "O"
           /\ call.fn = "encodeAccount" => t \in {"O", "A"}
           /\ call.fn = "encodeUser" => t = "A"

\* C4 witness: an account claim signed by an operator given as options.signer.
C4_Witness ==
    /\ Emitted
    /\ call.fn = "encodeAccount"
    /\ HasSigner(call.opts)
    /\ charAt0(Get(TokenClaim, "iss").str) = "O"

\* The signer policy of a kind; <<>> is unrestricted.
Policy(fn) ==
    CASE fn = "encodeOperator" -> <<"O">>
      [] fn = "encodeAccount" -> <<"O", "A">>
      [] fn = "encodeUser" -> <<"A">>
      [] OTHER -> <<>>

\* The subject type a kind requires; <<>> is any.
Required(fn) ==
    CASE fn = "encodeOperator" -> <<"O">>
      [] fn = "encodeAccount" -> <<"A">>
      [] fn = "encodeUser" -> <<"U">>
      [] OTHER -> <<>>

Restricted == {"encodeOperator", "encodeAccount", "encodeUser"}

UnexpectedTypeErrors ==
    {UnexpectedType(a, l) : a \in {"O", "A", "U"},
                            l \in {<<"O">>, <<"A">>, <<"U">>, <<"O", "A">>}}

\* The call's options.signer has a type outside the kind's policy.
SignerOutsidePolicy ==
    /\ call.fn \in Restricted
    /\ HasSigner(call.opts)
    /\ KeyType(call.opts.signer) \notin Range(Policy(call.fn))

\* The call is an encodeUser whose issuer argument is not an account key.
IssuerOutsidePolicy ==
    call.fn = "encodeUser" /\ KeyType(call.issuer) # "A"

SubjectOutsideRequired ==
    call.fn \in Restricted /\ KeyType(call.subject) \notin Range(Required(call.fn))

\* C5 as stated: a signer outside the policy fails with 'unexpected type',
\* and encodeAccount with a user-key signer names U and O,A.
C5_WrongSignerNamesSigner ==
    pc # "idle" =>
       /\ (SignerOutsidePolicy \/ IssuerOutsidePolicy)
             => err \in UnexpectedTypeErrors /\ tok = <<>>
       /\ (call.fn = "encodeAccount" /\ SignerOutsidePolicy)
             => err = UnexpectedType("U", <<"O", "A">>)

\* C5 amended: a call whose options.signer or encodeUser issuer has a type
\* outside the policy fails with an 'unexpected type' error and no token.
\* encodeOperator and encodeAccount check the subject first: the error names
\* the signer's type and the policy when the subject has the required type,
\* and the subject's type and the required type otherwise. encodeUser checks
\* the issuer, then options.signer: a wrong issuer is named with 'A', and a
\* wrong signer is named with 'A' when the issuer is an account key.
C5_WrongSignerRejected ==
    pc # "idle" =>
       /\ (SignerOutsidePolicy \/ IssuerOutsidePolicy)
             => err \in UnexpectedTypeErrors /\ tok = <<>>
       /\ (call.fn \in {"encodeOperator", "encodeAccount"} /\ SignerOutsidePolicy)
             => err = IF SubjectOutsideRequired
                      THEN UnexpectedType(KeyType(call.subject), Required(call.fn))
                      ELSE UnexpectedType(KeyType(call.opts.signer), Policy(call.fn))
       /\ IssuerOutsidePolicy
             => err = UnexpectedType(KeyType(call.issuer), <<"A">>)
       /\ (call.fn = "encodeUser" /\ SignerOutsidePolicy /\ ~IssuerOutsidePolicy)
             => err = UnexpectedType(KeyType(call.opts.signer), <<"A">>)

\* C5 witness: encodeAccount of an account key under a user-key signer threw
\* the error that names U and O,A.
C5_Witness ==
    /\ Threw
    /\ call.fn = "encodeAccount"
    /\ KeyType(call.subject) = "A"
    /\ KeyType(call.opts.signer) = "U"
    /\ err = "unexpected type U - wanted O,A"
    /\ tok = <<>>

\* The key that signs when the call's arguments are taken as the spec does.
EffectiveSigner ==
    IF HasSigner(call.opts) THEN call.opts.signer
    ELSE IF call.fn \in {"encodeUser", "encodeActivation"} THEN call.issuer
    ELSE call.subject

\* The call's signing side would pass: the issuer and the signer are within
\* the policy and the effective signer carries a seed.
SignerValid ==
    /\ ~SignerOutsidePolicy
    /\ ~IssuerOutsidePolicy
    /\ EffectiveSigner.seed

\* C6: a subject of another type than the kind requires (O, A, U) fails and
\* emits no token, naming the subject's type and the required one when the
\* signer is valid (always, for encodeOperator and encodeAccount);
\* encodeActivation and encodeGeneric never reject a subject for its type.
C6_SubjectTypeValidated ==
    pc # "idle" =>
       /\ SubjectOutsideRequired => err # "" /\ tok = <<>>
       /\ (SubjectOutsideRequired
           /\ (SignerValid \/ call.fn \in {"encodeOperator", "encodeAccount"}))
             => err = UnexpectedType(KeyType(call.subject), Required(call.fn))
       /\ (call.fn \in {"encodeActivation", "encodeGeneric"})
             => err \notin UnexpectedTypeErrors
       /\ (call.fn = "encodeActivation" /\ EffectiveSigner.seed) => err = ""
       /\ (call.fn = "encodeGeneric" /\ call.subject.seed) => err = ""

\* C6 witness: encodeUser of an account key as subject, with a valid account
\* signer, threw the error that names A and U.
C6_Witness ==
    /\ Threw
    /\ call.fn = "encodeUser"
    /\ KeyType(call.subject) = "A"
    /\ SignerValid
    /\ err = "unexpected type A - wanted U"

\* C6 witness of the unrestricted kinds: an activation was issued to an
\* operator key.
C6_ActivationWitness ==
    Emitted /\ call.fn = "encodeActivation" /\ KeyType(call.subject) = "O"

\* The subject and the signing side have types the kind allows.
TypesValid ==
    ~SubjectOutsideRequired /\ ~SignerOutsidePolicy /\ ~IssuerOutsidePolicy

\* C7 as stated: a call whose effective signer (options.signer when given,
\* else the subject or the issuer) is public-key-only fails without a token;
\* with a seeded options.signer and allowed types, a call whose subject or
\* issuer is a bare public key succeeds.
C7_SignerCarriesPrivateKey ==
    pc # "idle" =>
       /\ ~EffectiveSigner.seed => err # "" /\ tok = <<>>
       /\ (HasSigner(call.opts) /\ call.opts.signer.seed /\ TypesValid)
             => err = ""

\* C7 for the four encoders that read options.signer.
C7_ExceptGeneric ==
    call.fn # "encodeGeneric" => C7_SignerCarriesPrivateKey

\* C7 witness: an account claim for a bare public key, signed by a seeded
\* options.signer.
C7_Witness ==
    /\ Emitted
    /\ call.fn = "encodeAccount"
    /\ ~call.subject.seed
    /\ call.opts.signer.seed

\* C8 as stated: an emitted token's sub is the subject's public key and its
\* iss the public key of options.signer when given, else of the subject
\* (operator, account, generic) or the issuer (user, activation).
C8_SubAndIss ==
    Emitted =>
       /\ Get(TokenClaim, "sub") = Str(call.subject.pub)
       /\ Get(TokenClaim, "iss") = Str(EffectiveSigner.pub)

\* C8 for the four encoders that read options.signer.
C8_ExceptGeneric ==
    call.fn # "encodeGeneric" => C8_SubAndIss

\* C8 witness: a generic claim emitted under an options.signer that is not
\* the subject.
C8_Witness ==
    /\ Emitted
    /\ call.fn = "encodeGeneric"
    /\ HasSigner(call.opts)
    /\ call.opts.signer.pub # call.subject.pub

UserOrActivation == call.fn \in {"encodeUser", "encodeActivation"}

\* C9 as stated: for encodeUser and encodeActivation the decoded claim has,
\* with a signer, iss = signer and issuer_account = issuer; without one, no
\* issuer_account and iss = issuer; issuer(decoded) is the issuer's key.
C9_IssuerAccountAbsentWithoutSigner ==
    (pc = "decoded" /\ UserOrActivation) =>
       /\ HasSigner(call.opts) =>
             /\ Get(dec.claim, "iss") = Str(call.opts.signer.pub)
             /\ Get(Nats(dec.claim), "issuer_account") = Str(call.issuer.pub)
       /\ ~HasSigner(call.opts) =>
             /\ ~Has(Nats(dec.claim), "issuer_account")
             /\ Get(dec.claim, "iss") = Str(call.issuer.pub)
       /\ issuer(dec.claim) = Str(call.issuer.pub)

\* C9 amended: for encodeUser and encodeActivation the decoded claim has,
\* with a signer, iss = signer and issuer_account = issuer; without one,
\* iss = issuer and issuer_account is what the payload supplied (absent when
\* it supplied none). issuer(decoded) is the issuer's key with a signer, and
\* without one when the payload supplied no issuer_account; otherwise it is
\* the supplied issuer_account.
C9_IssuerAccount ==
    (pc = "decoded" /\ UserOrActivation) =>
       /\ HasSigner(call.opts) =>
             /\ Get(dec.claim, "iss") = Str(call.opts.signer.pub)
             /\ Get(Nats(dec.claim), "issuer_account") = Str(call.issuer.pub)
             /\ issuer(dec.claim) = Str(call.issuer.pub)
       /\ ~HasSigner(call.opts) =>
             /\ Get(Nats(dec.claim), "issuer_account")
                   = Get(call.payload, "issuer_account")
             /\ Get(dec.claim, "iss") = Str(call.issuer.pub)
             /\ issuer(dec.claim) =
                   IF Has(call.payload, "issuer_account")
                   THEN Get(call.payload, "issuer_account")
                   ELSE Str(call.issuer.pub)

\* C9 witness: a user claim signed by a signer other than the issuer was
\* decoded and issuer() names the issuer.
C9_Witness ==
    /\ pc = "decoded"
    /\ call.fn = "encodeUser"
    /\ HasSigner(call.opts)
    /\ call.opts.signer.pub # call.issuer.pub
    /\ Get(dec.claim, "iss") = Str(call.opts.signer.pub)
    /\ issuer(dec.claim) = Str(call.issuer.pub)

\* C10 as stated: whenever the key that signed is not the subject key, the
\* decoded issuer_account is the subject's public key and iss the signer's.
C10_IssuerAccountIsSubject ==
    (pc = "decoded" /\ Get(dec.claim, "iss") # Str(call.subject.pub)) =>
       /\ Get(Nats(dec.claim), "issuer_account") = Str(call.subject.pub)
       /\ Get(dec.claim, "iss") = Str(EffectiveSigner.pub)

\* C10 amended: encodeUser and encodeActivation under an options.signer set
\* issuer_account to the issuer argument's public key, with iss the signer's.
\* encodeOperator and encodeAccount under an options.signer put the signer's
\* public key in iss and add no issuer_account: the decoded issuer_account
\* is what the payload supplied, absent when it supplied none.
C10_Delegation ==
    (pc = "decoded" /\ HasSigner(call.opts)) =>
       /\ UserOrActivation =>
             /\ Get(Nats(dec.claim), "issuer_account") = Str(call.issuer.pub)
             /\ Get(dec.claim, "iss") = Str(call.opts.signer.pub)
       /\ call.fn \in {"encodeOperator", "encodeAccount"} =>
             /\ Get(Nats(dec.claim), "issuer_account")
                   = Get(call.payload, "issuer_account")
             /\ Get(dec.claim, "iss") = Str(call.opts.signer.pub)

\* C10 witness: an account claim signed by an operator was decoded and
\* carries no issuer_account.
C10_Witness ==
    /\ pc = "decoded"
    /\ call.fn = "encodeAccount"
    /\ KeyType(call.opts.signer) = "O"
    /\ Get(dec.claim, "iss") = Str(call.opts.signer.pub)
    /\ ~Has(Nats(dec.claim), "issuer_account")

\* C11 as stated: the decoded aud of a token of encodeAccount, encodeUser or
\* encodeGeneric is "NATS" when the options carry no aud and options.aud
\* when they carry one.
C11_AudOverride ==
    (pc = "decoded"
     /\ call.fn \in {"encodeAccount", "encodeUser", "encodeGeneric"}) =>
       Get(dec.claim, "aud") =
          IF call.opts.aud = Undefined THEN Str("NATS") ELSE call.opts.aud

\* C11, what the encoders do: the decoded aud is "NATS" whatever the options
\* carry.
C11_AudIsNATS ==
    pc = "decoded" => Get(dec.claim, "aud") = Str("NATS")

\* C11 witness: a generic claim encoded with options.aud "hello" was decoded.
C11_Witness ==
    /\ pc = "decoded"
    /\ call.fn = "encodeGeneric"
    /\ call.opts.aud = Str("hello")
    /\ dec.err = ""

\* C12: decode of a string that does not split into exactly three chunks
\* fails with 'invalid jwt', whatever the chunks hold (nothing is parsed
\* before the count), and a string of three chunks never fails that way.
C12_ChunkCount ==
    pc = "decoded" =>
       /\ Len(tok) # 3 => dec.err = InvalidJwt
       /\ Len(tok) = 3 => dec.err # InvalidJwt

\* C12 witness: two chunks that are not even base64 were refused as
\* 'invalid jwt'.
C12_Witness ==
    /\ pc = "decoded"
    /\ Len(tok) = 2
    /\ tok[1].spelling = "invalid"
    /\ dec.err = InvalidJwt

\* The spellings of "jwt" in any letter case that headers carry here.
CaseVariants == {Str("jwt"), Str("JWT"), Str("Jwt")}

KnownAlgs == {Str(Algorithms_v1), Str(Algorithms_v2)}

\* The header of a three-chunk token as decode reads it.
TokenHeader == JSONparse(tok[1].b64url)

\* C13: a three-chunk token whose header's typ is no spelling of jwt, or
\* whose alg is neither ed25519 nor ed25519-nkey, fails with 'not a nats
\* jwt', whatever its payload (no JSON, no iss, an iss that is no key) and
\* its signature are.
C13_BadHeaderFirst ==
    (pc = "decoded" /\ Len(tok) = 3 /\ Readable(tok[1])
     /\ (Get(TokenHeader, "typ") \notin CaseVariants
         \/ Get(TokenHeader, "alg") \notin KnownAlgs))
       => dec.err = NotANatsJwt

\* C13 witness: a token with typ Foo in the header and no iss in the payload
\* was refused as 'not a nats jwt'.
C13_Witness ==
    /\ pc = "decoded"
    /\ tampered = {1, 2}
    /\ Get(TokenHeader, "typ") = Str("Foo")
    /\ Readable(tok[2])
    /\ ~Has(TokenClaim, "iss")
    /\ dec.err = NotANatsJwt

\* The signature chunk of tok verifies under the payload's iss over the
\* signing input of the header's alg.
SignatureValid ==
    /\ PayloadNamesKey(tok[2])
    /\ \E r \in signed :
          /\ Str(r.pk) = Get(TokenClaim, "iss")
          /\ r.input = IF Get(TokenHeader, "alg") = Str(Algorithms_v2)
                       THEN <<tok[1], tok[2]>> ELSE <<tok[2]>>
          /\ Base64UrlCodec_decode(tok[3]).ok
          /\ r.sig = Base64UrlCodec_decode(tok[3]).bytes

\* C14 as stated: a token whose header typ is jwt in any letter case, with
\* a known alg and a valid signature, decodes; a typ that is not jwt under
\* case folding is rejected.
C14_TypAnyCase ==
    (pc = "decoded" /\ Len(tok) = 3 /\ Readable(tok[1])) =>
       /\ (Get(TokenHeader, "typ") \in CaseVariants
           /\ Get(TokenHeader, "alg") \in KnownAlgs
           /\ SignatureValid) => dec.err = ""
       /\ Get(TokenHeader, "typ") \notin CaseVariants => dec.err = NotANatsJwt

\* C14, what decode does: typ "jwt" and "JWT" decode, every other typ,
\* "Jwt" included, is refused as 'not a nats jwt'.
C14_TypLowerOrUpper ==
    (pc = "decoded" /\ Len(tok) = 3 /\ Readable(tok[1])) =>
       /\ (Get(TokenHeader, "typ") \in {Str("jwt"), Str("JWT")}
           /\ Get(TokenHeader, "alg") \in KnownAlgs
           /\ SignatureValid) => dec.err = ""
       /\ Get(TokenHeader, "typ") \notin {Str("jwt"), Str("JWT")}
             => dec.err = NotANatsJwt

\* C14 witness: a v1 token whose header was replaced by one with typ "jwt"
\* decoded.
C14_Witness ==
    /\ pc = "decoded"
    /\ tampered = {1}
    /\ Get(TokenHeader, "typ") = Str("jwt")
    /\ dec.err = ""

FourEncoders ==
    {"encodeAccount", "encodeUser", "encodeActivation", "encodeGeneric"}

\* C15 as stated: for a token of encodeAccount, encodeUser, encodeGeneric or
\* encodeActivation with any payload, version(decode(token)) is 1 under v1
\* and 2 under v2 or no algorithm option.
C15_VersionByAlgorithm ==
    (pc = "decoded" /\ call.fn \in FourEncoders) =>
       version(dec.claim) =
          IF IssuedAlgorithm = Algorithms_v1 THEN Num(1) ELSE Num(2)

\* C15 for payloads that carry no version of their own.
C15_VersionWithoutSuppliedVersion ==
    (pc = "decoded" /\ ~Has(call.payload, "version")) =>
       version(dec.claim) =
          IF IssuedAlgorithm = Algorithms_v1 THEN Num(1) ELSE Num(2)

\* C15 witness: a v1 account token whose payload carried version 2 was
\* decoded.
C15_Witness ==
    /\ pc = "decoded"
    /\ call.fn = "encodeAccount"
    /\ IssuedAlgorithm = Algorithms_v1
    /\ Get(call.payload, "version") = Num(2)
    /\ dec.err = ""

\* The classifier that names the encoder of a call.
OwnPredicate(c) ==
    CASE call.fn = "encodeOperator" -> isOperator(c)
      [] call.fn = "encodeAccount" -> isAccount(c)
      [] call.fn = "encodeUser" -> isUser(c)
      [] call.fn = "encodeActivation" -> isActivation(c)
      [] call.fn = "encodeGeneric" -> isGeneric(c)

\* How many of isAccount, isUser, isActivation, isGeneric hold of c.
HowManyKinds(c) ==
    Cardinality({p \in {"account", "user", "activation", "generic"} :
        \/ p = "account" /\ isAccount(c)
        \/ p = "user" /\ isUser(c)
        \/ p = "activation" /\ isActivation(c)
        \/ p = "generic" /\ isGeneric(c)})

\* C16 as stated: on the decoded claim of a token of encodeAccount,
\* encodeUser, encodeActivation or encodeGeneric exactly one of isAccount,
\* isUser, isActivation, isGeneric is true, and it is the encoder's own.
C16_OneKind ==
    (pc = "decoded" /\ call.fn \in FourEncoders) =>
       /\ HowManyKinds(dec.claim) = 1
       /\ OwnPredicate(dec.claim)

\* C16 for payloads that carry no version of their own.
C16_OneKindWithoutSuppliedVersion ==
    (pc = "decoded" /\ call.fn \in FourEncoders
     /\ ~Has(call.payload, "version")) =>
       /\ HowManyKinds(dec.claim) = 1
       /\ OwnPredicate(dec.claim)

\* C16 witness: a v1 user token was decoded and is a user claim only.
C16_Witness ==
    /\ pc = "decoded"
    /\ call.fn = "encodeUser"
    /\ IssuedAlgorithm = Algorithms_v1
    /\ isUser(dec.claim)
    /\ HowManyKinds(dec.claim) = 1

\* C17 as stated: isGeneric(c) holds exactly when none of isOperator,
\* isAccount, isUser, isActivation holds; a decoded operator claim is not
\* generic.
C17_GenericIsFallback ==
    pc = "decoded" =>
       /\ isGeneric(dec.claim) <=>
             ~(isOperator(dec.claim) \/ isAccount(dec.claim)
               \/ isUser(dec.claim) \/ isActivation(dec.claim))
       /\ call.fn = "encodeOperator" => ~isGeneric(dec.claim)

\* C17, what isGeneric does: it is the fallback over account, user and
\* activation alone.
C17_GenericOverThree ==
    pc = "decoded" =>
       isGeneric(dec.claim) <=>
          ~(isAccount(dec.claim) \/ isUser(dec.claim) \/ isActivation(dec.claim))

\* C17 witness: an operator claim was decoded and isOperator holds of it.
C17_Witness ==
    /\ pc = "decoded"
    /\ call.fn = "encodeOperator"
    /\ isOperator(dec.claim)

\* The type an encoder writes: its kind's name, or the generic kind.
WrittenType ==
    CASE call.fn = "encodeOperator" -> Str(Types_Operator)
      [] call.fn = "encodeAccount" -> Str(Types_Account)
      [] call.fn = "encodeUser" -> Str(Types_User)
      [] call.fn = "encodeActivation" -> Str(Types_Activation)
      [] call.fn = "encodeGeneric" -> Str(call.kind)

\* C18: a v2 token has the type and version 2 inside nats and no top-level
\* type; a v1 token has the type at the top level and nats.type and
\* nats.version as the payload supplied them (nats of a v1 account with an
\* empty payload is {}). An activation keeps its kind under nats.kind with
\* nats.type 'activation' in v2, and under nats.type with the top-level
\* type 'activation' in v1.
C18_DiscriminantPlacement ==
    pc = "decoded" =>
       LET c == dec.claim
           v2 == IssuedAlgorithm = Algorithms_v2
           act == call.fn = "encodeActivation"
       IN  /\ v2 => /\ Get(Nats(c), "type") = WrittenType
                    /\ Get(Nats(c), "version") = Num(2)
                    /\ ~Has(c, "type")
           /\ ~v2 => /\ Get(c, "type") = WrittenType
                     /\ Get(Nats(c), "version") = Get(call.payload, "version")
           /\ (~v2 /\ ~act) =>
                 Get(Nats(c), "type") = Get(call.payload, "type")
           /\ (~v2 /\ call.fn = "encodeAccount" /\ call.payload = <<>>) =>
                 Nats(c) = <<>>
           /\ (v2 /\ act) => Get(Nats(c), "kind") = Str(call.kind)
           /\ (~v2 /\ act) => Get(Nats(c), "type") = Str(call.kind)

\* C18 witness: a v1 activation was decoded with its kind under nats.type
\* and 'activation' at the top level.
C18_Witness ==
    /\ pc = "decoded"
    /\ call.fn = "encodeActivation"
    /\ IssuedAlgorithm = Algorithms_v1
    /\ Get(Nats(dec.claim), "type") = Str("stream")
    /\ Get(dec.claim, "type") = Str(Types_Activation)

\* o without its property k.
Without(o, k) == SelectSeq(o, LAMBDA p : p[1] # k)

\* The claim carries its issuer, time, subject, name, audience and nats,
\* with the type and version in nats under v2.
FullyPopulated(c) ==
    /\ \A k \in {"iss", "iat", "sub", "name", "aud", "nats"} : Has(c, k)
    /\ IssuedAlgorithm = Algorithms_v2
          => Has(Nats(c), "type") /\ Get(Nats(c), "version") = Num(2)

\* C20: with a digest primitive, the jti of an emitted token is the hash of
\* the fully populated claim serialized without jti, the signature covers
\* the payload chunk that carries that claim with jti added, and hashing
\* the decoded claim without its jti reproduces jti. Without a digest
\* primitive jti is the base64 text of IdLen random bytes.
C20_JtiIsContentHash ==
    Emitted =>
       /\ env.subtle =>
             /\ FullyPopulated(Without(TokenClaim, "jti"))
             /\ Get(TokenClaim, "jti")
                   = Digest(JSONstringify(Without(TokenClaim, "jti")))
             /\ \E r \in signed : r.input[Len(r.input)] = tok[2]
             /\ pc = "decoded" =>
                   Get(dec.claim, "jti")
                      = Digest(JSONstringify(Without(dec.claim, "jti")))
       /\ ~env.subtle =>
             /\ DOMAIN Get(TokenClaim, "jti") = {"b64"}
             /\ Base64Codec_decode(Get(TokenClaim, "jti").b64).ok
             /\ Base64Codec_decode(Get(TokenClaim, "jti").b64).bytes
                   = env.random
             /\ Len(env.random) = IdLen

\* C20 witness: a token with a hashed jti was decoded at a later time than 0.
C20_Witness ==
    /\ pc = "decoded"
    /\ env.subtle
    /\ Get(dec.claim, "iat") = Num(1)
    /\ Get(dec.claim, "jti") = Digest(JSONstringify(Without(dec.claim, "jti")))

\* C20 witness of the other runtime: a token with a random id was emitted.
C20_RandomWitness ==
    Emitted /\ ~env.subtle /\ Len(Get(TokenClaim, "jti").b64) = 16

\* The two claims kept were encoded from the same arguments, and the
\* activations their imports carry from the same arguments.
SameArguments ==
    LET a == held.acc[1]
        b == held.acc[2]
    IN  /\ a.fn = b.fn /\ a.name = b.name /\ a.shape = b.shape
        /\ (a.n = 0) = (b.n = 0)
        /\ a.n > 0 => held.act[a.n].subject = held.act[b.n].subject

\* The two claims kept differ in the name, in the kind, or in the subject,
\* the type or the to/local_subject of their import.
ChangedArguments ==
    LET a == held.acc[1]
        b == held.acc[2]
    IN  \/ a.name # b.name
        \/ a.fn # b.fn
        \/ /\ a.shape # NoImport /\ b.shape # NoImport
           /\ a.shape # b.shape

\* C19: equivalent is true of two account tokens encoded from the same
\* arguments at any two times, their imports carrying activation tokens
\* that were themselves encoded from the same arguments at any two times;
\* it is false when the name, the kind, or an import's subject, type or
\* to/local_subject differs.
C19_Equivalent ==
    (eqv # NoResult /\ \A i \in DOMAIN held.acc : held.acc[i].n # Foreign) =>
       /\ eqv.err = ""
       /\ SameArguments => eqv.result
       /\ ChangedArguments => ~eqv.result

\* C19 witness: two account tokens with different iat, importing two
\* activation tokens with different iat, were found equivalent.
C19_Witness ==
    /\ eqv # NoResult
    /\ eqv.result
    /\ held.acc[1].n = 1
    /\ held.acc[2].n = 2
    /\ held.act[1].tok # held.act[2].tok
    /\ Get(JSONparse(held.acc[1].tok[2].b64url), "iat")
          # Get(JSONparse(held.acc[2].tok[2].b64url), "iat")

\* C19 witness of a change: two account tokens whose imports differ in
\* to/local_subject alone were found not equivalent.
C19_ChangedWitness ==
    /\ eqv # NoResult
    /\ ~eqv.result
    /\ held.acc[1].shape.key = "to"
    /\ held.acc[2].shape.key = "local_subject"
    /\ held.acc[1].name = held.acc[2].name

\* C22: a token that is decoded as it was emitted decodes to the claim it
\* carries, whatever the type of the key in iss and whatever the kind of
\* the claim.
C22_NoIssuerPolicyOnDecode ==
    (pc = "decoded" /\ tampered = {}) =>
       /\ dec.err = ""
       /\ dec.claim = TokenClaim

\* C22 witness: a claim of kind user issued by a user key was decoded.
C22_Witness ==
    /\ pc = "decoded"
    /\ tampered = {}
    /\ dec.err = ""
    /\ isUser(dec.claim)
    /\ charAt0(Get(dec.claim, "iss").str) = "U"

\* C22 witness: a claim of kind user issued by an operator key was decoded.
C22_OperatorWitness ==
    /\ pc = "decoded"
    /\ tampered = {}
    /\ dec.err = ""
    /\ isUser(dec.claim)
    /\ charAt0(Get(dec.claim, "iss").str) = "O"

UserLimits == {"data", "payload", "subs"}

\* A user claim was decoded; without scopedUser each of data, payload and
\* subs is the payload's value, or -1 where the payload has none.
DefaultsInjected ==
    ~call.opts.scopedUser =>
       \A k \in UserLimits :
          Get(Nats(dec.claim), k) =
             IF Has(call.payload, k) THEN Get(call.payload, k) ELSE Num(-1)

\* C23 as stated: without scopedUser the defaults are injected under the
\* payload's values; with scopedUser the decoded nats has data, payload,
\* subs and issuer_account only if the payload had them.
C23_ScopedOmitsIssuerAccount ==
    (pc = "decoded" /\ call.fn = "encodeUser") =>
       /\ DefaultsInjected
       /\ call.opts.scopedUser =>
             \A k \in UserLimits \cup {"issuer_account"} :
                Has(Nats(dec.claim), k) => Has(call.payload, k)

\* C23 amended: without scopedUser the defaults are injected under the
\* payload's values; with scopedUser the decoded nats has data, payload and
\* subs exactly when the payload had them, and issuer_account when the
\* payload had it or options.signer is set.
C23_UserDefaults ==
    (pc = "decoded" /\ call.fn = "encodeUser") =>
       /\ DefaultsInjected
       /\ call.opts.scopedUser =>
             /\ \A k \in UserLimits :
                   Has(Nats(dec.claim), k) <=> Has(call.payload, k)
             /\ Has(Nats(dec.claim), "issuer_account")
                   <=> (Has(call.payload, "issuer_account")
                        \/ HasSigner(call.opts))

\* C23 witness: a scoped user encoded under a signer from a payload without
\* limits or issuer_account was decoded with no limits and the issuer's key
\* in issuer_account.
C23_Witness ==
    /\ pc = "decoded"
    /\ call.fn = "encodeUser"
    /\ call.opts.scopedUser
    /\ HasSigner(call.opts)
    /\ call.payload = <<>>
    /\ ~Has(Nats(dec.claim), "data")
    /\ Get(Nats(dec.claim), "issuer_account") = Str(call.issuer.pub)

\* C23 witness of the defaults: a user that is not scoped, encoded from a
\* payload with data alone, was decoded with that data and subs -1.
C23_DefaultsWitness ==
    /\ pc = "decoded"
    /\ call.fn = "encodeUser"
    /\ ~call.opts.scopedUser
    /\ Get(call.payload, "data") = Num(10)
    /\ Get(Nats(dec.claim), "data") = Num(10)
    /\ Get(Nats(dec.claim), "subs") = Num(-1)

\* The shapes of a key reference that holds a seed.
KeyShapes == {"KeyPair", "Uint8Array", "string"}

\* The last call with its subject, and its issuer when it has one, given in
\* another shape.
Reshaped(shape) ==
    LET c == [call EXCEPT !.subject.form =
                            IF call.subject.seed THEN shape ELSE @]
    IN  IF call.issuer # NoKey /\ call.issuer.seed
        THEN [c EXCEPT !.issuer.form = shape] ELSE c

\* sub and iss of a token.
SubAndIss(chunks) ==
    <<Get(JSONparse(chunks[2].b64url), "sub"),
      Get(JSONparse(chunks[2].b64url), "iss")>>

\* C24: an encode call that is given a key as a key pair, as the bytes of
\* its seed or as the text of its seed emits a token in all three cases,
\* with the same sub and iss in all three.
C24_KeyShapesInterchangeable ==
    (pc = "returned" /\ tampered = {}
     /\ (call.subject.seed \/ call.issuer.seed)) =>
       \A shape \in KeyShapes :
          LET r == Invoke(Reshaped(shape), now)
          IN  /\ err = ""
              /\ r.err = ""
              /\ SubAndIss(r.chunks) = SubAndIss(tok)

\* C24 witness: encodeAccount given the bytes of an account seed emitted a
\* token whose sub and iss are that account.
C24_Witness ==
    /\ Emitted
    /\ call.fn = "encodeAccount"
    /\ call.subject = SeedBytes("A1")
    /\ SubAndIss(tok) = <<Str("A1"), Str("A1")>>

\* C24 witness of the text: encodeAccount given the text of an account seed
\* emitted a token whose sub and iss are that account.
C24_TextWitness ==
    /\ Emitted
    /\ call.fn = "encodeAccount"
    /\ call.subject = SeedText("A1")
    /\ SubAndIss(tok) = <<Str("A1"), Str("A1")>>

\* C24 witness of the issuer: encodeUser given the bytes of the issuer's
\* seed emitted a token issued by that account.
C24_IssuerWitness ==
    /\ Emitted
    /\ call.fn = "encodeUser"
    /\ call.issuer = SeedBytes("A1")
    /\ Get(TokenClaim, "iss") = Str("A1")

\* C28: what decode returned for the token in hand is what decode returns
\* for it at any later time; the token of an encode call decodes to a claim
\* with the exp and nbf of the call's options, also when exp is before and
\* nbf is after the time of decoding.
C28_DecodeIgnoresTime ==
    pc = "decoded" =>
       /\ dec = decode(tok, signed)
       /\ dec.err = ""
       /\ Get(dec.claim, "exp") = call.opts.exp
       /\ Get(dec.claim, "nbf") = call.opts.nbf

\* C28 witness: a token issued at 1 that expired at 0 and is not valid
\* before 2 was decoded before 2.
C28_Witness ==
    /\ pc = "decoded"
    /\ dec.err = ""
    /\ Get(dec.claim, "iat") = Num(1)
    /\ Get(dec.claim, "exp") = Num(0)
    /\ Get(dec.claim, "nbf") = Num(2)
    /\ now < 2

\* The tokens in hand, activations and claims, that decode.
HeldTokens ==
    {t \in {held.act[i].tok : i \in DOMAIN held.act}
           \cup {held.acc[i].tok : i \in DOMAIN held.acc} :
       decode(t, signed).err = ""}

\* equivalent is reflexive, symmetric and transitive over the tokens in T.
EquivalenceOver(T) ==
    LET E == [a \in T, b \in T |-> equivalent(a, b, signed)]
    IN  /\ \A a \in T : E[a, a] = [err |-> "", result |-> TRUE]
        /\ \A a, b \in T : E[a, b] = E[b, a]
        /\ \A a, b, c \in T :
              (E[a, b].result /\ E[b, c].result) => E[a, c].result

\* C26 as stated: over the tokens in hand that decode, equivalent(a, a) is
\* true, equivalent(a, b) is equivalent(b, a), and equivalent(a, b) and
\* equivalent(b, c) give equivalent(a, c).
C26_EquivalenceRelation ==
    eqv # NoResult => EquivalenceOver(HeldTokens)

\* C26 over the tokens whose imports carry tokens that decode.
C26_OverDecodableImports ==
    eqv # NoResult =>
       EquivalenceOver(HeldTokens \ {held.acc[i].tok : i \in
                          {j \in DOMAIN held.acc : held.acc[j].n = Foreign}})

\* C26 witness: an account token that decodes, whose import carries the
\* activation token with typ "Jwt", was compared with itself and equivalent
\* threw.
C26_Witness ==
    /\ eqv # NoResult
    /\ held.acc[1].n = Foreign
    /\ held.acc[1].tok = held.acc[2].tok
    /\ decode(held.acc[1].tok, signed).err = ""
    /\ eqv.err = NotANatsJwt

\* The codec returned a text without '=', '+' and '/', and what was decoded
\* from it is the value encoded.
RoundTrips ==
    /\ codec.ok
    /\ \A i \in DOMAIN codec.text : codec.text[i] \notin {"=", "+", "/"}
    /\ codec.step = "decoded" =>
          /\ codec.back.ok
          /\ codec.back.bytes = codec.input

\* C27 as stated: every byte array and every string is encoded to a text
\* without '=', '+' and '/', which decodes, unpadded, to the value encoded.
C27_RoundTrip ==
    codec # NoCodec => RoundTrips

\* C27 for byte arrays and for strings of Latin-1 characters.
C27_RoundTripLatin1 ==
    (codec # NoCodec /\ \A i \in DOMAIN codec.input : codec.input[i] <= 255)
       => RoundTrips

\* C27 witness: a string with a character outside Latin-1 was given to
\* encode, which threw.
C27_Witness ==
    /\ codec # NoCodec
    /\ codec.kind = "text"
    /\ \E i \in DOMAIN codec.input : codec.input[i] > 255
    /\ ~codec.ok

\* C27 witness of a round trip: two bytes that encode to an unpadded text
\* with '-' and '_' were decoded.
C27_BytesWitness ==
    /\ codec # NoCodec
    /\ codec.step = "decoded"
    /\ codec.kind = "bytes"
    /\ codec.input = <<251, 255>>
    /\ Len(codec.text) = 3
    /\ codec.back.bytes = codec.input

\* The properties of a complete UserPermissionsLimits, nested ones by path.
LimitPaths ==
    { <<"pub", "allow">>, <<"pub", "deny">>, <<"sub", "allow">>,
      <<"sub", "deny">>, <<"resp", "max">>, <<"resp", "ttl">>,
      <<"data">>, <<"payload">>, <<"subs">>, <<"src">>, <<"times">>,
      <<"locale">>, <<"bearer_token">>, <<"allowed_connection_types">> }

\* o[path[1]][path[2]]: undefined when a step is missing.
At(o, path) ==
    IF Len(path) = 1 THEN Get(o, path[1])
    ELSE IF IsObj(Get(o, path[1])) THEN Get(Get(o, path[1]).obj, path[2])
    ELSE Undefined

\* C30 as stated: the limits returned, and the template stored, have every
\* property of a UserPermissionsLimits defined, and each property d gives
\* has d's value.
C30_Complete ==
    (limits # NoLimits /\ limits.err = "") =>
       \A path \in LimitPaths :
          /\ At(limits.result, path) # Undefined
          /\ At(limits.d, path) # Undefined
                => At(limits.result, path) = At(limits.d, path)

\* C30 for the top level: every top-level property is defined and is d's
\* where d has it.
C30_CompleteAtTopLevel ==
    (limits # NoLimits /\ limits.err = "") =>
       \A path \in LimitPaths :
          /\ Get(limits.result, path[1]) # Undefined
          /\ Has(limits.d, path[1])
                => Get(limits.result, path[1]) = Get(limits.d, path[1])

\* C30 witness: defaultUserPermissionsLimits({sub: {allow: ["foo"]}})
\* returned limits whose sub has allow and no deny.
C30_Witness ==
    /\ limits # NoLimits
    /\ limits.step = "defaults"
    /\ limits.d = << <<"sub", Obj(<< <<"allow", Arr(<<Str("foo")>>)>> >>)>> >>
    /\ At(limits.result, <<"sub", "allow">>) = Arr(<<Str("foo")>>)
    /\ At(limits.result, <<"sub", "deny">>) = Undefined

\* C30 witness of the template: newScopedSigner stored a template whose
\* resp has max and no ttl.
C30_TemplateWitness ==
    /\ limits # NoLimits
    /\ limits.step = "signer"
    /\ limits.err = ""
    /\ At(limits.result, <<"resp", "max">>) = Num(1)
    /\ At(limits.result, <<"resp", "ttl">>) = Undefined

\* The number of delimited blocks of a credentials text.
RECURSIVE BlocksFrom(_, _)
BlocksFrom(text, i) ==
    LET m == search(text, i)
    IN  IF m.found THEN 1 + BlocksFrom(text, m.lastIndex) ELSE 0

Blocks(text) == BlocksFrom(text, 1)

\* parseCreds(fmtCreds(t, kp)) for a user token t: the token, the seed, the
\* decoded claim, and the account the user belongs to.
Inverts ==
    (creds.step = "parsed" /\ creds.text = creds.written
        /\ call.fn = "encodeUser") =>
       LET uc == decode(tok, signed).claim
       IN  /\ creds.parsed.err = ""
           /\ creds.parsed.jwt = Jwt(tok)
           /\ creds.parsed.key = SeedOf(creds.kp)
           /\ creds.parsed.uc = uc
           /\ creds.parsed.aid =
                 IF Has(Nats(uc), "issuer_account")
                 THEN Get(Nats(uc), "issuer_account") ELSE Get(uc, "iss")

\* C29 as stated: parseCreds inverts fmtCreds, and a text with fewer than
\* two delimited blocks is rejected with 'bad credentials'.
C29_ParseInvertsFormat ==
    /\ Inverts
    /\ (creds.step = "parsed" /\ Blocks(creds.text) < 2) =>
          creds.parsed.err = BadCredentials

\* C29 as the code has it: parseCreds inverts fmtCreds; a text with fewer
\* than two delimited blocks is rejected, with 'bad credentials' when it has
\* no block or its one block holds a token that decodes, and with decode's
\* error when its one block holds anything else.
C29_ParseInvertsOrRejects ==
    /\ Inverts
    /\ (creds.step = "parsed" /\ Blocks(creds.text) < 2) =>
          LET d == decode(split(trim(search(creds.text, 1).m1)), signed)
          IN  /\ creds.parsed.err # ""
              /\ creds.parsed.err =
                    IF Blocks(creds.text) = 1 /\ d.err # "" THEN d.err
                    ELSE BadCredentials

\* C29 witness: the credentials of a user issued by a signing key were
\* parsed back, and aid is the account, not the signing key.
C29_Witness ==
    /\ creds.step = "parsed"
    /\ creds.text = creds.written
    /\ call.fn = "encodeUser"
    /\ creds.parsed.err = ""
    /\ creds.parsed.aid = Str("A1")
    /\ Get(creds.parsed.uc, "iss") = Str("A2")
    /\ creds.parsed.key = SeedOf(KeyPair("U1", TRUE))

\* C29 witness of a rejection: a text with the token block alone was
\* rejected with 'bad credentials'.
C29_OneBlockWitness ==
    /\ creds.step = "parsed"
    /\ Blocks(creds.text) = 1
    /\ creds.text.lines[2] = creds.written.lines[2]
    /\ creds.parsed.err = BadCredentials

\* C29 witness of the other rejection: a text whose one block holds no
\* token was rejected with decode's error.
C29_UndecodableWitness ==
    /\ creds.step = "parsed"
    /\ Blocks(creds.text) = 1
    /\ creds.parsed.err = InvalidJwt

\* The claim inside the token a call in flight returned.
FlightClaim(f) == JSONparse(Base64UrlCodec_decodeText(f.chunks[2]).text)

\* What the call of a frame returns when it runs alone on the payload it
\* was handed.
Alone(f) ==
    encodeActivation(f.c.name, f.c.subject, f.c.issuer, f.c.kind,
                     f.c.payload, f.c.opts, now)

\* The token of a returned call is the token the call returns alone, and
\* under a digest its jti is the hash of its own claim.
AsAlone(f) ==
    f.state = "returned" =>
       /\ f.chunks = Alone(f).chunks
       /\ env.subtle =>
             Get(FlightClaim(f), "jti")
                = Digest(JSONstringify(Without(FlightClaim(f), "jti")))

\* C21 as stated: however two encode calls in flight are interleaved at the
\* await of the digest, on one payload object or on two, each returns the
\* token it returns alone, with a jti that is the hash of its own claim.
C21_InterleavingsIndependent ==
    \A i \in DOMAIN flight : AsAlone(flight[i])

\* C21 for calls that do not share: a call that ran with no other call in
\* flight, or on a payload object of its own, returns the token it returns
\* alone.
C21_UnsharedIndependent ==
    \A i \in DOMAIN flight :
       (~flight[i].overlapped \/ flight[i].c.ref = Private)
          => AsAlone(flight[i])

\* C21 witness: a v2 call and a v1 call on one payload object were both
\* waiting, the v2 call returned, and nats.type of its token is the kind
\* the v1 call wrote where alone it is "activation".
C21_Witness ==
    /\ Len(flight) = 2
    /\ flight[1].state = "returned"
    /\ flight[2].state = "awaiting"
    /\ flight[1].c.ref = flight[2].c.ref
    /\ flight[1].algorithm = Algorithms_v2
    /\ flight[2].algorithm = Algorithms_v1
    /\ Get(Nats(FlightClaim(flight[1])), "type") = Str(flight[2].c.kind)
    /\ Get(Nats(JSONparse(Base64UrlCodec_decodeText(
              Alone(flight[1]).chunks[2]).text)), "type")
          = Str(Types_Activation)
    /\ Get(FlightClaim(flight[1]), "jti")
          # Digest(JSONstringify(Without(FlightClaim(flight[1]), "jti")))

\* C21 witness of calls that do not share: two calls on payload objects of
\* their own were both waiting and both returned.
C21_PrivateWitness ==
    /\ Len(flight) = 2
    /\ flight[1].overlapped /\ flight[2].overlapped
    /\ flight[1].c.ref = Private /\ flight[2].c.ref = Private
    /\ flight[1].state = "returned" /\ flight[2].state = "returned"

\* A v1 token as the claim has it: version 1, and neither type nor version
\* inside nats.
PlainV1(claim) ==
    /\ version(claim) = Num(1)
    /\ ~Has(Nats(claim), "type")
    /\ ~Has(Nats(claim), "version")

\* C25 as stated: an encode call leaves the payload object and the options
\* object as they were, so that in any sequence of calls on one payload
\* object a v1 token has version 1 and neither type nor version inside
\* nats, and a token issued without a signer has no issuer_account.
C25_CallerObjectsUnchanged ==
    \A i \in DOMAIN flight :
       flight[i].err = "" =>
          /\ flight[i].after = flight[i].c.payload
          /\ flight[i].opts = flight[i].c.opts
          /\ flight[i].opts.algorithm = Algorithms_v1
                => PlainV1(FlightClaim(flight[i]))
          /\ ~HasSigner(flight[i].c.opts)
                => ~Has(Nats(FlightClaim(flight[i])), "issuer_account")

\* C25 for the first call on a payload object: its v1 token has version 1
\* and no version inside nats, no type inside nats unless it is an
\* activation (whose kind v1 keeps there), and no issuer_account without a
\* signer; the options object is as it was when it named an algorithm.
C25_FirstCallClean ==
    (flight # <<>> /\ flight[1].err = "") =>
       LET f == flight[1]
           claim == FlightClaim(f)
       IN  /\ f.c.opts.algorithm # "" => f.opts = f.c.opts
           /\ f.opts.algorithm = Algorithms_v1 =>
                 /\ version(claim) = Num(1)
                 /\ ~Has(Nats(claim), "version")
                 /\ f.c.fn # "encodeActivation" => ~Has(Nats(claim), "type")
           /\ ~HasSigner(f.c.opts) => ~Has(Nats(claim), "issuer_account")

\* C25 witness: an account was encoded under v2 and then under v1 on one
\* payload object, and the v1 token has version 2 and a type inside nats.
C25_Witness ==
    /\ Len(flight) = 2
    /\ flight[1].c.fn = "encodeAccount" /\ flight[2].c.fn = "encodeAccount"
    /\ flight[1].c.opts.algorithm = Algorithms_v2
    /\ flight[2].c.opts.algorithm = Algorithms_v1
    /\ flight[1].c.payload = <<>>
    /\ flight[1].after # <<>>
    /\ flight[2].err = ""
    /\ version(FlightClaim(flight[2])) = Num(2)
    /\ Get(Nats(FlightClaim(flight[2])), "type") = Str(Types_Account)

\* C25 witness of the signer: an activation was encoded with a signer and
\* then without one on one payload object, and the second token names an
\* issuer_account.
C25_SignerWitness ==
    /\ Len(flight) = 2
    /\ flight[1].c.fn = "encodeActivation"
    /\ flight[2].c.fn = "encodeActivation"
    /\ HasSigner(flight[1].c.opts) /\ ~HasSigner(flight[2].c.opts)
    /\ flight[2].err = ""
    /\ Has(Nats(FlightClaim(flight[2])), "issuer_account")

\* C25 witness of the options: a call given options without an algorithm
\* left algorithm set in them.
C25_OptionsWitness ==
    /\ flight # <<>>
    /\ flight[1].err = ""
    /\ flight[1].c.opts.algorithm = ""
    /\ flight[1].opts.algorithm = Algorithms_v2

=============================================================================
